---- MODULE Spec2Model ----
(***************************************************************************)
(* Model of the go-steam-language front end (package parser):              *)
(*   - the tree/symbol model of ast.go (node, Symbol, the concrete nodes), *)
(*   - the recursive-descent Analyzer,                                     *)
(*   - the Tokenizer of token.go.                                          *)
(*                                                                         *)
(* Pointers are indices: a Node is an index into `nodes`, a *Symbol an     *)
(* index into `syms`, and 0 is nil.  A concrete node (ClassNode, EnumNode, *)
(* PropertyNode) and the *node it embeds are one index; its owner is then  *)
(* the index itself, and the owner of a plain node (NewNode) is nil.       *)
(***************************************************************************)
EXTENDS Integers, Sequences, FiniteSets, TLC

VARIABLES nodes, syms, last, files, stack, status, lex, queue

vars == <<nodes, syms, last, files, stack, status, lex, queue>>

Nil == 0

(***************************************************************************)
(* Bounds                                                                  *)
(***************************************************************************)
\* Nodes and symbols the driven Node interface may allocate in all.
MaxHeap == 5
\* Nodes and symbols of the trees AdoptChildren is driven on.
MaxTree == 4
MaxTreeSyms == 2
\* Tokens enqueued on the queue driven on its own.
MaxQueue == 3

(***************************************************************************)
(* ast.go: the tree/symbol model                                           *)
(***************************************************************************)

\* symbolTable: a map from names to *Symbol; make(symbolTable) is empty.
EmptyTable == [x \in {} |-> Nil]

\* type Symbol struct { Value; Scope; Node }
Symbol(value, node) == [Value |-> value, Scope |-> Nil, Node |-> node]

\* type node struct { parent; owner; children; symbols } with the fields of
\* baseNode, ClassNode, EnumNode and PropertyNode at their zero values.
NodeRec(kind, parent) ==
    [kind |-> kind, parent |-> parent, children |-> <<>>,
     symbols |-> EmptyTable, Value |-> "",
     Qualifier |-> Nil, EnumFlags |-> FALSE,
     Flags |-> "", FlagsOpt |-> Nil, Type |-> Nil, Default |-> <<>>,
     Obsolete |-> FALSE, ObsoleteReason |-> ""]

\* node.owner: nil for NewNode, the concrete node for newBaseNode.
Owner(ns, n) == IF ns[n].kind = "node" THEN Nil ELSE n

\* node.AddChild: child.SetParent(n); n.children = append(n.children, child)
AddChild(ns, n, child) ==
    [ns EXCEPT ![child].parent = n,
               ![n].children = Append(ns[n].children, child)]

\* newNode / newBaseNode: allocates the node and links it under its parent.
NewNodeOf(ns, kind, parent) ==
    LET n == Len(ns) + 1
        ns1 == Append(ns, NodeRec(kind, parent))
    IN IF parent # Nil THEN AddChild(ns1, parent, n) ELSE ns1

\* AddSymbol storing s without setting s.Scope: what C8 must tell from the
\* code.
AddSymbolWrongScope(st, n, s) ==
    IF s = Nil \/ st.syms[s].Value = ""
       \/ st.syms[s].Value \in DOMAIN st.nodes[n].symbols
    THEN [nodes |-> st.nodes, syms |-> st.syms, panic |-> TRUE]
    ELSE [nodes |-> [st.nodes EXCEPT ![n].symbols =
                        @ @@ (st.syms[s].Value :> s)],
          syms |-> st.syms,
          panic |-> FALSE]

\* node.AddSymbol: panics on a nil symbol, an empty name or a name already
\* in n's own table; otherwise sets s.Scope and stores s.
AddSymbol(st, n, s) ==
    IF s = Nil THEN [nodes |-> st.nodes, syms |-> st.syms, panic |-> TRUE]
    ELSE IF st.syms[s].Value = ""
    THEN [nodes |-> st.nodes, syms |-> st.syms, panic |-> TRUE]
    ELSE IF st.syms[s].Value \in DOMAIN st.nodes[n].symbols
    THEN [nodes |-> st.nodes, syms |-> st.syms, panic |-> TRUE]
    ELSE [nodes |-> [st.nodes EXCEPT ![n].symbols =
                        @ @@ (st.syms[s].Value :> s)],
          syms |-> [st.syms EXCEPT ![s].Scope = n],
          panic |-> FALSE]

\* node.CreateSymbol: sym := &Symbol{value, node}; n.AddSymbol(sym).  When
\* AddSymbol panics nothing holds the new symbol, and the heap is as before.
CreateSymbol(st, n, value, node) ==
    LET s == Len(st.syms) + 1
        r == AddSymbol([nodes |-> st.nodes,
                        syms |-> Append(st.syms, Symbol(value, node))], n, s)
    IN IF r.panic
       THEN [nodes |-> st.nodes, syms |-> st.syms, panic |-> TRUE, sym |-> Nil]
       ELSE [nodes |-> r.nodes, syms |-> r.syms, panic |-> FALSE, sym |-> s]

\* FindSymbol asking the parent before the node's own table, so that an
\* outer declaration hides an inner one: what C17 must tell from the code.
RECURSIVE FindSymbolOuterFirst(_, _, _, _)
FindSymbolOuterFirst(st, n, value, create) ==
    LET p == st.nodes[n].parent
        up == IF p # Nil
              THEN FindSymbolOuterFirst(st, p, value, FALSE)
              ELSE [nodes |-> st.nodes, syms |-> st.syms,
                    panic |-> FALSE, sym |-> Nil]
    IN IF up.sym # Nil THEN up
       ELSE IF value \in DOMAIN st.nodes[n].symbols
       THEN [nodes |-> st.nodes, syms |-> st.syms, panic |-> FALSE,
             sym |-> st.nodes[n].symbols[value]]
       ELSE IF create
       THEN CreateSymbol(st, n, value, Owner(st.nodes, n))
       ELSE up

\* FindSymbol asking the parent with create=false, so that the symbol is
\* made in the node the search began in: what C1 must tell from the code.
RECURSIVE FindSymbolLocalCreate(_, _, _, _)
FindSymbolLocalCreate(st, n, value, create) ==
    IF value \in DOMAIN st.nodes[n].symbols
    THEN [nodes |-> st.nodes, syms |-> st.syms, panic |-> FALSE,
          sym |-> st.nodes[n].symbols[value]]
    ELSE LET p == st.nodes[n].parent
             up == IF p # Nil
                   THEN FindSymbolLocalCreate(st, p, value, FALSE)
                   ELSE [nodes |-> st.nodes, syms |-> st.syms,
                         panic |-> FALSE, sym |-> Nil]
         IN IF up.panic \/ up.sym # Nil THEN up
            ELSE IF create
            THEN CreateSymbol(up, n, value, Owner(up.nodes, n))
            ELSE up

\* node.FindSymbol: own table, then the parent (handing `create` on), then
\* creation in n when the parent found and made nothing (so: only in the
\* root of the chain, whose create the recursion reaches first).
RECURSIVE FindSymbol(_, _, _, _)
FindSymbol(st, n, value, create) ==
    IF value \in DOMAIN st.nodes[n].symbols
    THEN [nodes |-> st.nodes, syms |-> st.syms, panic |-> FALSE,
          sym |-> st.nodes[n].symbols[value]]
    ELSE LET p == st.nodes[n].parent
             up == IF p # Nil
                   THEN FindSymbol(st, p, value, create)
                   ELSE [nodes |-> st.nodes, syms |-> st.syms,
                         panic |-> FALSE, sym |-> Nil]
         IN IF up.panic \/ up.sym # Nil THEN up
            ELSE IF create
            THEN CreateSymbol(up, n, value, Owner(up.nodes, n))
            ELSE up

\* FindNestedSymbol with every component looked up from the starting node
\* (the ambient scope): what C4 must tell from the code.
RECURSIVE FindNestedAmbient(_, _, _, _)
FindNestedAmbient(st, node, path, i) ==
    IF i > Len(path)
    THEN [nodes |-> st.nodes, syms |-> st.syms, panic |-> FALSE, sym |-> Nil]
    ELSE LET r == FindSymbol(st, node, path[i], i = Len(path))
         IN IF r.panic \/ r.sym = Nil \/ i = Len(path) THEN r
            ELSE FindNestedAmbient(r, node, path, i + 1)

\* FindNestedSymbol with create=true for every component: what C16 must
\* tell from the code.
RECURSIVE FindNestedCreateAll(_, _, _, _)
FindNestedCreateAll(st, node, path, i) ==
    IF i > Len(path)
    THEN [nodes |-> st.nodes, syms |-> st.syms, panic |-> FALSE, sym |-> Nil]
    ELSE LET r == FindSymbol(st, node, path[i], TRUE)
         IN IF r.panic \/ r.sym = Nil \/ i = Len(path) THEN r
            ELSE LET next == IF r.syms[r.sym].Node # Nil
                             THEN r.syms[r.sym].Node
                             ELSE r.syms[r.sym].Scope
                 IN FindNestedCreateAll(r, next, path, i + 1)

\* node.FindNestedSymbol: every component but the last is looked up with
\* create=false, the last with create=true; the next component is looked up
\* from sym.Node, or from sym.Scope when sym.Node is nil.
RECURSIVE FindNestedFrom(_, _, _, _)
FindNestedFrom(st, node, path, i) ==
    IF i > Len(path)
    THEN [nodes |-> st.nodes, syms |-> st.syms, panic |-> FALSE, sym |-> Nil]
    ELSE LET r == FindSymbol(st, node, path[i], i = Len(path))
         IN IF r.panic \/ r.sym = Nil \/ i = Len(path) THEN r
            ELSE LET next == IF r.syms[r.sym].Node # Nil
                             THEN r.syms[r.sym].Node
                             ELSE r.syms[r.sym].Scope
                 IN FindNestedFrom(r, next, path, i + 1)

FindNestedSymbol(st, n, path) == FindNestedFrom(st, n, path, 1)

\* node.Symbols: the symbols of n's table (a Go map: no order).
Symbols(ns, n) == {ns[n].symbols[v] : v \in DOMAIN ns[n].symbols}

\* node.ImportSymbols: n.AddSymbol(sym) for every symbol of other, each in a
\* closure that recovers the panic.  The names of one table differ, so the
\* result does not depend on the order the map is ranged in.
RECURSIVE ImportEach(_, _, _)
ImportEach(st, n, todo) ==
    IF todo = {} THEN [nodes |-> st.nodes, syms |-> st.syms]
    ELSE LET s == CHOOSE x \in todo : TRUE
             r == AddSymbol(st, n, s)
         IN ImportEach([nodes |-> r.nodes, syms |-> r.syms], n, todo \ {s})

\* ImportSymbols with the imported symbol replacing the one the table holds:
\* what C3 must tell from the code.
RECURSIVE ImportEachOverwrite(_, _, _)
ImportEachOverwrite(st, n, todo) ==
    IF todo = {} THEN [nodes |-> st.nodes, syms |-> st.syms]
    ELSE LET s == CHOOSE x \in todo : TRUE
         IN ImportEachOverwrite(
                [nodes |-> [st.nodes EXCEPT ![n].symbols =
                               (st.syms[s].Value :> s) @@ @],
                 syms |-> [st.syms EXCEPT ![s].Scope = n]], n, todo \ {s})

ImportSymbolsOverwrite(st, n, other) ==
    ImportEachOverwrite(st, n, Symbols(st.nodes, other))

\* importFile without root.ImportSymbols(importRoot): what C24 must tell
\* from the code.
ImportSymbolsNone(st, n, other) == [nodes |-> st.nodes, syms |-> st.syms]

ImportSymbols(st, n, other) == ImportEach(st, n, Symbols(st.nodes, other))

\* AdoptChildren without other.ClearChildren(): what C11 must tell from the
\* code.
RECURSIVE AdoptEachKeep(_, _, _)
AdoptEachKeep(ns, n, cs) ==
    IF cs = <<>> THEN ns
    ELSE AdoptEachKeep(AddChild(ns, n, Head(cs)), n, Tail(cs))

AdoptChildrenKeep(ns, n, other) == AdoptEachKeep(ns, n, ns[other].children)

\* AdoptChildren putting the adopted children before n's own: what C12 must
\* tell from the code.
AdoptChildrenFront(ns, n, other) ==
    [AdoptEachKeep(ns, n, ns[other].children) EXCEPT
        ![other].children = <<>>,
        ![n].children = ns[other].children \o ns[n].children]

\* node.AdoptChildren: n.AddChild(child) for every child of other, in order,
\* then other.ClearChildren().
RECURSIVE AdoptEach(_, _, _)
AdoptEach(ns, n, cs) ==
    IF cs = <<>> THEN ns
    ELSE AdoptEach(AddChild(ns, n, Head(cs)), n, Tail(cs))

AdoptChildren(ns, n, other) ==
    [AdoptEach(ns, n, ns[other].children) EXCEPT ![other].children = <<>>]

\* node.Ancestors / node.Path: the chain n, parent(n), ... up to the root.
RECURSIVE Chain(_, _)
Chain(ns, n) == IF n = Nil THEN <<>> ELSE <<n>> \o Chain(ns, ns[n].parent)

ChainSet(ns, n) == {Chain(ns, n)[i] : i \in 1..Len(Chain(ns, n))}

\* The last node of the chain: the root above n.
RootOf(ns, n) == Chain(ns, n)[Len(Chain(ns, n))]

(***************************************************************************)
(* The Node interface driven call by call: any caller of package parser.   *)
(* `last` is the last call made and what it returned.                      *)
(***************************************************************************)
ApiNames == {"", "a", "b"}
ApiPaths == {<<>>, <<"a">>, <<"a", "b">>}

NoCall == [op |-> "none", n |-> Nil, value |-> "", path |-> <<>>,
           create |-> FALSE, s |-> Nil, other |-> Nil,
           sym |-> Nil, panic |-> FALSE, made |-> 0]

NodeIds == 1..Len(nodes)
SymIds == 1..Len(syms)
Heap == [nodes |-> nodes, syms |-> syms]

ApiInit ==
    /\ nodes = <<NodeRec("node", Nil)>>
    /\ syms = <<>>
    /\ last = NoCall
    /\ files = <<>>
    /\ stack = <<>>
    /\ status = "api"
    /\ lex = <<>>
    /\ queue = <<>>

ApiFrame == UNCHANGED <<files, stack, status, lex, queue>>

\* NewNode(nil): a new root.
CallNewNode ==
    /\ status = "api"
    /\ Len(nodes) + Len(syms) < MaxHeap
    /\ nodes' = NewNodeOf(nodes, "node", Nil)
    /\ last' = [NoCall EXCEPT !.op = "NewNode", !.n = Len(nodes) + 1]
    /\ UNCHANGED syms
    /\ ApiFrame

\* A declaration, as analyzeClass makes it: node := NewClassNode(parent);
\* node.Value = name; parent.AddSymbol(node.Symbol()).
Declare(st, kind, parent, name) ==
    LET n == Len(st.nodes) + 1
        ns == [NewNodeOf(st.nodes, kind, parent) EXCEPT ![n].Value = name]
        r == CreateSymbol([nodes |-> ns, syms |-> st.syms], parent, name, n)
    IN [nodes |-> r.nodes, syms |-> r.syms, panic |-> r.panic,
        sym |-> r.sym, node |-> n]

CallDeclare(parent, name) ==
    /\ status = "api"
    /\ Len(nodes) + Len(syms) + 1 < MaxHeap
    /\ LET r == Declare(Heap, "class", parent, name)
       IN /\ nodes' = r.nodes
          /\ syms' = r.syms
          /\ last' = [NoCall EXCEPT !.op = "AddSymbol", !.n = parent,
                                     !.value = name, !.other = r.node,
                                     !.s = Len(syms) + 1, !.panic = r.panic]
    /\ ApiFrame

\* n.CreateSymbol(value, nil): a new symbol that names no node.
CallCreateSymbol(n, value) ==
    /\ status = "api"
    /\ Len(nodes) + Len(syms) < MaxHeap
    /\ LET r == CreateSymbol(Heap, n, value, Nil)
       IN /\ nodes' = r.nodes
          /\ syms' = r.syms
          /\ last' = [NoCall EXCEPT !.op = "AddSymbol", !.n = n,
                                     !.value = value,
                                     !.s = Len(syms) + 1, !.panic = r.panic]
    /\ ApiFrame

\* n.AddSymbol(nil)
CallAddSymbol(n, s) ==
    /\ status = "api"
    /\ LET r == AddSymbol(Heap, n, s)
       IN /\ nodes' = r.nodes
          /\ syms' = r.syms
          /\ last' = [NoCall EXCEPT !.op = "AddSymbol", !.n = n, !.s = s,
                                     !.value = IF s = Nil THEN ""
                                               ELSE syms[s].Value,
                                     !.panic = r.panic]
    /\ ApiFrame

CallFindSymbol(n, value, create) ==
    /\ status = "api"
    /\ create => Len(nodes) + Len(syms) < MaxHeap
    /\ LET r == FindSymbol(Heap, n, value, create)
       IN /\ nodes' = r.nodes
          /\ syms' = r.syms
          /\ last' = [NoCall EXCEPT !.op = "FindSymbol", !.n = n,
                                     !.value = value, !.create = create,
                                     !.sym = r.sym, !.panic = r.panic,
                                     !.made = Len(r.syms) - Len(syms)]
    /\ ApiFrame

CallFindNestedSymbol(n, path) ==
    /\ status = "api"
    /\ Len(nodes) + Len(syms) < MaxHeap
    /\ LET r == FindNestedSymbol(Heap, n, path)
       IN /\ nodes' = r.nodes
          /\ syms' = r.syms
          /\ last' = [NoCall EXCEPT !.op = "FindNestedSymbol", !.n = n,
                                     !.path = path,
                                     !.sym = r.sym, !.panic = r.panic,
                                     !.made = Len(r.syms) - Len(syms)]
    /\ ApiFrame

ApiNext ==
    \/ CallNewNode
    \/ \E p \in NodeIds, v \in ApiNames : CallDeclare(p, v)
    \/ \E n \in NodeIds, v \in ApiNames : CallCreateSymbol(n, v)
    \/ \E n \in NodeIds : CallAddSymbol(n, Nil)
    \/ \E n \in NodeIds, v \in ApiNames, c \in BOOLEAN :
          (v = "" => c) /\ CallFindSymbol(n, v, c)
    \/ \E n \in NodeIds, p \in ApiPaths : CallFindNestedSymbol(n, p)

NodeSpec == ApiInit /\ [][ApiNext]_vars

(***************************************************************************)
(* AdoptChildren driven on its own: nodes made under any node, symbols     *)
(* created in any node, and self.AdoptChildren(other) for any node self    *)
(* and any other node that is not above it.                                *)
(***************************************************************************)
TreeInit ==
    /\ nodes = <<NodeRec("node", Nil)>>
    /\ syms = <<>>
    /\ last = NoCall
    /\ files = <<>>
    /\ stack = <<>>
    /\ status = "tree"
    /\ lex = <<>>
    /\ queue = <<>>

\* NewNode(parent)
TreeNewNode(parent) ==
    /\ status = "tree"
    /\ Len(nodes) < MaxTree
    /\ nodes' = NewNodeOf(nodes, "node", parent)
    /\ last' = [NoCall EXCEPT !.op = "NewNode"]
    /\ UNCHANGED syms
    /\ ApiFrame

\* n.CreateSymbol(value, nil)
TreeCreateSymbol(n, value) ==
    /\ status = "tree"
    /\ Len(syms) < MaxTreeSyms
    /\ LET r == CreateSymbol(Heap, n, value, Nil)
       IN /\ nodes' = r.nodes
          /\ syms' = r.syms
          /\ last' = [NoCall EXCEPT !.op = "AddSymbol", !.panic = r.panic]
    /\ ApiFrame

\* self.AdoptChildren(other), other being neither self nor a node above
\* self (the adoption keeps the tree a tree); `made` is the number of
\* children other had.
TreeAdopt(self, other) ==
    /\ status = "tree"
    /\ other \notin ChainSet(nodes, self)
    /\ nodes' = AdoptChildren(nodes, self, other)
    /\ last' = [NoCall EXCEPT !.op = "AdoptChildren", !.n = self,
                               !.other = other,
                               !.made = Len(nodes[other].children)]
    /\ UNCHANGED syms
    /\ ApiFrame

TreeNext ==
    \/ \E p \in NodeIds : TreeNewNode(p)
    \/ \E n \in NodeIds : TreeCreateSymbol(n, "a")
    \/ \E self \in NodeIds, other \in NodeIds : TreeAdopt(self, other)

TreeSpec == TreeInit /\ [][TreeNext]_vars

(***************************************************************************)
(* token.go: Token and TokenQueue                                          *)
(***************************************************************************)

\* type Token struct { Op; Value; ... }
Tok(op, value) == [Op |-> op, Value |-> value]
Id(v) == Tok("identifier", v)
Str(v) == Tok("string", v)
Oper(v) == Tok("operator", v)
Pre(v) == Tok("preprocess", v)
Inv(v) == Tok("invalid", v)
Term == Tok("terminator", ";")
Ns == Tok("namespace", "::")

\* The nil *Token.
NoToken == Tok("nil", "")

\* bytes.EqualFold compares under case folding: the fold of the spellings
\* the token streams below hold.
Fold(v) ==
    CASE v = "OBSOLETE" -> "obsolete"
      [] v = "Flags" -> "flags"
      [] OTHER -> v

\* Token.ValueEqual / Token.Equal
ValueEqual(t, val) == Fold(t.Value) = Fold(val)
TokenEqual(t, other) == t.Op = other.Op /\ ValueEqual(t, other.Value)

\* Dequeue removing the back of the list: what C13 must tell from the code.
DequeueLast(q) == IF q = <<>> THEN <<>> ELSE SubSeq(q, 1, Len(q) - 1)

\* TokenQueue.Peek / TokenQueue.Dequeue on the queue as a sequence.
Peek(q) == IF q = <<>> THEN NoToken ELSE Head(q)
Dequeue(q) == IF q = <<>> THEN <<>> ELSE Tail(q)

\* tokenStringValues
RECURSIVE tokenStringValues(_)
tokenStringValues(ts) ==
    IF ts = <<>> THEN <<>>
    ELSE <<Head(ts).Value>> \o tokenStringValues(Tail(ts))

(***************************************************************************)
(* The Analyzer: the token-matching primitives.  Each returns the queue it *)
(* leaves (q), the token it returns (tok, NoToken for nil) and, for the    *)
(* expect forms, the error ("" for nil).                                   *)
(***************************************************************************)
openQualifierToken == Oper("<")
closeQualifierToken == Oper(">")
openScopeToken == Oper("{")
closeScopeToken == Oper("}")
assignmentToken == Oper("=")
binaryOrToken == Oper("|")
obsoleteToken == Id("obsolete")
flagsToken == Id("flags")

\* expectOp taking an invalid token for any operation code: what C20 must
\* tell from the code.
expectOpOrInvalid(q, op) ==
    IF Peek(q) = NoToken THEN [q |-> q, tok |-> NoToken, err |-> "EOF"]
    ELSE IF Peek(q).Op # op /\ Peek(q).Op # "invalid"
    THEN [q |-> q, tok |-> NoToken, err |-> "Unexpected token"]
    ELSE [q |-> Dequeue(q), tok |-> Peek(q), err |-> ""]

\* expectOp dequeuing the front token it rejects: what C19 must tell from
\* the code.
expectOpConsume(q, op) ==
    IF Peek(q) = NoToken THEN [q |-> q, tok |-> NoToken, err |-> "EOF"]
    ELSE IF Peek(q).Op # op
    THEN [q |-> Dequeue(q), tok |-> NoToken, err |-> "Unexpected token"]
    ELSE [q |-> Dequeue(q), tok |-> Peek(q), err |-> ""]

expectOp(q, op) ==
    IF Peek(q) = NoToken THEN [q |-> q, tok |-> NoToken, err |-> "EOF"]
    ELSE IF Peek(q).Op # op
    THEN [q |-> q, tok |-> NoToken, err |-> "Unexpected token"]
    ELSE [q |-> Dequeue(q), tok |-> Peek(q), err |-> ""]

expectToken(q, t1) ==
    IF Peek(q) = NoToken THEN [q |-> q, tok |-> NoToken, err |-> "EOF"]
    ELSE IF ~TokenEqual(t1, Peek(q))
    THEN [q |-> q, tok |-> NoToken, err |-> "Unexpected token"]
    ELSE [q |-> Dequeue(q), tok |-> Peek(q), err |-> ""]

optionalOp(q, op) ==
    IF Peek(q) = NoToken THEN [q |-> q, tok |-> NoToken]
    ELSE IF Peek(q).Op # op THEN [q |-> q, tok |-> NoToken]
    ELSE [q |-> Dequeue(q), tok |-> Peek(q)]

optionalToken(q, t1) ==
    IF Peek(q) = NoToken THEN [q |-> q, tok |-> NoToken]
    ELSE IF ~TokenEqual(t1, Peek(q)) THEN [q |-> q, tok |-> NoToken]
    ELSE [q |-> Dequeue(q), tok |-> Peek(q)]

\* getNamespacedIdentifier: IDENT ('::' IDENT)?
getNamespacedIdentifier(q) ==
    LET id == expectOp(q, "identifier")
    IN IF id.err # "" THEN [q |-> id.q, toks |-> <<>>, err |-> id.err]
       ELSE LET ns == optionalOp(id.q, "namespace")
            IN IF ns.tok = NoToken
               THEN [q |-> ns.q, toks |-> <<id.tok>>, err |-> ""]
               ELSE LET id2 == expectOp(ns.q, "identifier")
                    IN IF id2.err # ""
                       THEN [q |-> id2.q, toks |-> <<>>, err |-> id2.err]
                       ELSE [q |-> id2.q, toks |-> <<id.tok, id2.tok>>,
                             err |-> ""]

\* getQualifierIdentifier: ('<' nsIdent '>')?
getQualifierIdentifier(q) ==
    LET open == optionalToken(q, openQualifierToken)
    IN IF open.tok = NoToken THEN [q |-> open.q, toks |-> <<>>, err |-> ""]
       ELSE LET ids == getNamespacedIdentifier(open.q)
            IN IF ids.err # "" THEN ids
               ELSE LET close == expectToken(ids.q, closeQualifierToken)
                    IN IF close.err # ""
                       THEN [q |-> close.q, toks |-> <<>>, err |-> close.err]
                       ELSE [q |-> close.q, toks |-> ids.toks, err |-> ""]

\* Analyzer.Errorf: the position is written when row > 0 || col > 0, the
\* file name when it is not empty.
NoError == [file |-> "", pos |-> <<>>, msg |-> ""]
Errorf(filename, row, col, msg) ==
    [file |-> filename,
     pos |-> IF row > 0 \/ col > 0 THEN <<row, col>> ELSE <<>>,
     msg |-> msg]

\* The error value an expect form returns for the queue q it was called on:
\* a.Errorf(-1, -1, "EOF") or a.Errorf(t.Row, t.Col, "Unexpected token %q").
ErrorOf(filename, q, err) ==
    CASE err = "EOF" -> Errorf(filename, 0 - 1, 0 - 1, "EOF")
      [] err = "Unexpected token" ->
            Errorf(filename, Peek(q).Row, Peek(q).Col, "Unexpected token")
      [] OTHER -> NoError

(***************************************************************************)
(* The TokenQueue and the primitives driven call by call.  The tokens are  *)
(* as the Tokenizer makes them, with Row and Col.  `queue` holds the list  *)
(* and, for the record, the tokens enqueued (in) and the tokens handed out *)
(* (out) so far; `last` is the last call and what it returned.             *)
(***************************************************************************)
At(t, row, col) == [Op |-> t.Op, Value |-> t.Value, Row |-> row, Col |-> col]

QueueTokens == {At(Id("a"), 1, 2), At(Oper("{"), 1, 4),
                At(Id("OBSOLETE"), 2, 9)}
QueueOps == {"identifier", "operator", "string"}
QueueExpected == {openScopeToken, obsoleteToken}
QueueFiles == {"", "f"}

NoQueueCall == [op |-> "none", arg |-> NoToken, tok |-> NoToken,
                err |-> NoError]

QueueInit ==
    /\ queue = [list |-> <<>>, in |-> <<>>, out |-> <<>>]
    /\ last = NoQueueCall
    /\ nodes = <<>>
    /\ syms = <<>>
    /\ files = <<>>
    /\ stack = <<>>
    /\ status = "queue"
    /\ lex = <<>>

QueueFrame == UNCHANGED <<nodes, syms, files, stack, status, lex>>

\* q.enqueue(t): PushBack
CallEnqueue(t) ==
    /\ status = "queue"
    /\ Len(queue.in) < MaxQueue
    /\ queue' = [queue EXCEPT !.list = Append(@, t), !.in = Append(@, t)]
    /\ last' = [NoQueueCall EXCEPT !.op = "enqueue", !.arg = t]
    /\ QueueFrame

\* q.Dequeue()
CallDequeue ==
    /\ status = "queue"
    /\ queue' = [queue EXCEPT !.list = Dequeue(@),
                              !.out = IF queue.list = <<>> THEN @
                                      ELSE Append(@, Peek(queue.list))]
    /\ last' = [NoQueueCall EXCEPT !.op = "Dequeue",
                                    !.tok = Peek(queue.list)]
    /\ QueueFrame

\* q.Peek()
CallPeek ==
    /\ status = "queue"
    /\ last' = [NoQueueCall EXCEPT !.op = "Peek", !.tok = Peek(queue.list)]
    /\ UNCHANGED queue
    /\ QueueFrame

\* One of the four primitives, r being what it returned.
Primitive(name, arg, filename, r, err) ==
    /\ status = "queue"
    /\ queue' = [queue EXCEPT !.list = r.q,
                              !.out = IF r.tok = NoToken THEN @
                                      ELSE Append(@, r.tok)]
    /\ last' = [op |-> name, arg |-> arg, tok |-> r.tok,
                err |-> ErrorOf(filename, queue.list, err)]
    /\ QueueFrame

CallExpectOp(op, f) ==
    LET r == expectOp(queue.list, op)
    IN Primitive("expectOp", Tok(op, ""), f, r, r.err)

CallExpectToken(t, f) ==
    LET r == expectToken(queue.list, t)
    IN Primitive("expectToken", t, f, r, r.err)

CallOptionalOp(op) ==
    LET r == optionalOp(queue.list, op)
    IN Primitive("optionalOp", Tok(op, ""), "", r, "")

CallOptionalToken(t) ==
    LET r == optionalToken(queue.list, t)
    IN Primitive("optionalToken", t, "", r, "")

QueueNext ==
    \/ \E t \in QueueTokens : CallEnqueue(t)
    \/ CallDequeue
    \/ CallPeek
    \/ \E op \in QueueOps, f \in QueueFiles : CallExpectOp(op, f)
    \/ \E t \in QueueExpected, f \in QueueFiles : CallExpectToken(t, f)
    \/ \E op \in QueueOps : CallOptionalOp(op)
    \/ \E t \in QueueExpected : CallOptionalToken(t)

QueueSpec == QueueInit /\ [][QueueNext]_vars

(***************************************************************************)
(* The Analyzer: the productions.  Each operator is the code of one        *)
(* production run on a queue q and a heap, up to its first return; res is  *)
(* "ok", "error" (an error returned) or "panic" (AddSymbol or AddDefault   *)
(* panicked: nothing in Analyze recovers it).                              *)
(***************************************************************************)
Step(ns, sy, q, res, node) ==
    [nodes |-> ns, syms |-> sy, q |-> q, res |-> res, node |-> node]

\* analyzeClass / analyzeEnum up to the '{' of analyzeScope: the new node,
\* its name, its symbol in root, its qualifier, the enum's flags keyword.
\* DeclHead is the production; its stages follow the code's statements and
\* are written last stage first.
\* analyzeScope's expectToken(openScopeToken).
DeclOpen(n, f, ns3, open) ==
    IF f.panic THEN Step(f.nodes, f.syms, open.q, "panic", n)
    ELSE IF open.err # "" THEN Step(ns3, f.syms, open.q, "error", n)
    ELSE Step(ns3, f.syms, open.q, "ok", n)

\* analyzeEnum: if flag := a.optionalToken(flagsToken); flag != nil
DeclFlags(n, f, ns2, fl) ==
    DeclOpen(n, f, IF fl.tok # NoToken
                   THEN [ns2 EXCEPT ![n].EnumFlags = TRUE] ELSE ns2,
             expectToken(fl.q, openScopeToken))

\* The declaration with its qualifier left unset: what C9 must tell from
\* the code.
DeclUnqualified(kind, n, gq, f) ==
    DeclFlags(n, f, f.nodes,
              IF kind = "enum" THEN optionalToken(gq.q, flagsToken)
              ELSE [q |-> gq.q, tok |-> NoToken])

\* node.Qualifier = root.FindNestedSymbol(tokenStringValues(qualifiers))
DeclQualified(kind, n, gq, f) ==
    DeclFlags(n, f, [f.nodes EXCEPT ![n].Qualifier = f.sym],
              IF kind = "enum" THEN optionalToken(gq.q, flagsToken)
              ELSE [q |-> gq.q, tok |-> NoToken])

\* root.AddSymbol(node.Symbol()); qualifiers, err := getQualifierIdentifier()
DeclQualifier(kind, root, n, d, q, gq) ==
    IF d.panic THEN Step(d.nodes, d.syms, q, "panic", n)
    ELSE IF gq.err # "" THEN Step(d.nodes, d.syms, gq.q, "error", n)
    ELSE DeclQualified(kind, n, gq,
                       FindNestedSymbol(d, root, tokenStringValues(gq.toks)))

\* node := NewClassNode(root); name, err := a.expectOp(OpIdentifier)
DeclNamed(kind, root, st, name) ==
    IF name.err # ""
    THEN Step(NewNodeOf(st.nodes, kind, root), st.syms, name.q, "error",
              Len(st.nodes) + 1)
    ELSE DeclQualifier(kind, root, Len(st.nodes) + 1,
                       Declare(st, kind, root, name.tok.Value), name.q,
                       getQualifierIdentifier(name.q))

DeclHead(kind, q, root, st) ==
    DeclNamed(kind, root, st, expectOp(q, "identifier"))

\* analyzeProperty up to the optional '=': the new node, the one to three
\* identifiers, the qualifier, the symbol of the name, the type symbol.
\* res is "default" when the '=' was consumed.  PropHead is the production;
\* its stages are written last stage first.
\* node.Type, node.Flags and the optional '='.
PropType(n, q3, flags, ty, asg) ==
    IF ty.panic THEN Step(ty.nodes, ty.syms, q3, "panic", n)
    ELSE Step([ty.nodes EXCEPT ![n].Type = ty.sym, ![n].Flags = flags],
              ty.syms, asg.q,
              IF asg.tok # NoToken THEN "default" ELSE "ok", n)

\* root.AddSymbol(node.Symbol()), then root.FindSymbol(typeSymbol, true)
\* when there is a type.
PropSymbol(scope, n, q3, typeSymbol, flags, a) ==
    IF a.panic THEN Step(a.nodes, a.syms, q3, "panic", n)
    ELSE PropType(n, q3, flags,
                  IF typeSymbol # ""
                  THEN FindSymbol(a, scope, typeSymbol, TRUE)
                  ELSE [nodes |-> a.nodes, syms |-> a.syms,
                        panic |-> FALSE, sym |-> Nil],
                  optionalToken(q3, assignmentToken))

\* node.FlagsOpt = root.FindNestedSymbol(tokenStringValues(qualifiers))
PropFlagsOpt(scope, n, q3, nodeValue, typeSymbol, flags, f) ==
    IF f.panic THEN Step(f.nodes, f.syms, q3, "panic", n)
    ELSE PropSymbol(scope, n, q3, typeSymbol, flags,
                    CreateSymbol([nodes |-> [f.nodes EXCEPT
                                                ![n].FlagsOpt = f.sym],
                                  syms |-> f.syms], scope, nodeValue, n))

\* analyzeProperty taking the first identifier for the name, the second for
\* the type and the third for the flags word: what C22 must tell from the
\* code.
PropIdentsNameFirst(scope, st, t1, gq, t2, t3) ==
    LET n == Len(st.nodes) + 1
        nodeValue == t1.tok.Value
        typeSymbol == IF t2.tok # NoToken THEN t2.tok.Value ELSE ""
        flags == IF t3.tok # NoToken THEN t3.tok.Value ELSE ""
    IN PropFlagsOpt(scope, n, t3.q, nodeValue, typeSymbol, flags,
                    FindNestedSymbol(
                        [nodes |-> [NewNodeOf(st.nodes, "property", scope)
                                       EXCEPT ![n].Value = nodeValue],
                         syms |-> st.syms],
                        scope, tokenStringValues(gq.toks)))

\* t2, t3 and the roles of the one to three identifiers; node.Value.
PropIdents(scope, st, t1, gq, t2, t3) ==
    LET n == Len(st.nodes) + 1
        nodeValue == IF t3.tok # NoToken THEN t3.tok.Value
                     ELSE IF t2.tok # NoToken THEN t2.tok.Value
                     ELSE t1.tok.Value
        typeSymbol == IF t3.tok # NoToken THEN t2.tok.Value
                      ELSE IF t2.tok # NoToken THEN t1.tok.Value
                      ELSE ""
        flags == IF t3.tok # NoToken THEN t1.tok.Value ELSE ""
    IN PropFlagsOpt(scope, n, t3.q, nodeValue, typeSymbol, flags,
                    FindNestedSymbol(
                        [nodes |-> [NewNodeOf(st.nodes, "property", scope)
                                       EXCEPT ![n].Value = nodeValue],
                         syms |-> st.syms],
                        scope, tokenStringValues(gq.toks)))

PropSecond(scope, st, t1, gq, t2) ==
    PropIdents(scope, st, t1, gq, t2, optionalOp(t2.q, "identifier"))

\* qualifiers, err := a.getQualifierIdentifier()
PropQualifier(scope, st, t1, gq) ==
    IF gq.err # ""
    THEN Step(NewNodeOf(st.nodes, "property", scope), st.syms, gq.q,
              "error", Len(st.nodes) + 1)
    ELSE PropSecond(scope, st, t1, gq, optionalOp(gq.q, "identifier"))

\* node := NewPropertyNode(root); t1, err := a.expectOp(OpIdentifier)
PropFirst(scope, st, t1) ==
    IF t1.err # ""
    THEN Step(NewNodeOf(st.nodes, "property", scope), st.syms, t1.q,
              "error", Len(st.nodes) + 1)
    ELSE PropQualifier(scope, st, t1, getQualifierIdentifier(t1.q))

PropHead(q, scope, st) == PropFirst(scope, st, expectOp(q, "identifier"))

\* AddDefault putting the symbol first: what C10 must tell from the code.
AddDefaultFirst(ns, n, s) == [ns EXCEPT ![n].Default = <<s>> \o @]

\* PropertyNode.AddDefault: panics on nil, else appends.
AddDefault(ns, n, s) == [ns EXCEPT ![n].Default = Append(@, s)]

\* One round of the default-chain loop of analyzeProperty: a namespaced
\* identifier, its symbol appended, the optional '|'.  res is "default"
\* when the '|' was consumed and the loop goes round again.
DefaultRound(q, prop, st) ==
    LET ids == getNamespacedIdentifier(q)
    IN IF ids.err # "" THEN Step(st.nodes, st.syms, ids.q, "error", prop)
       ELSE
       LET f == FindNestedSymbol(st, prop, tokenStringValues(ids.toks))
           bor == optionalToken(ids.q, binaryOrToken)
       IN IF f.panic \/ f.sym = Nil
          THEN Step(f.nodes, f.syms, ids.q, "panic", prop)
          ELSE Step(AddDefault(f.nodes, prop, f.sym), f.syms, bor.q,
                    IF bor.tok # NoToken THEN "default" ELSE "ok", prop)

\* The end of analyzeProperty with the optional terminator consumed after
\* either form of the annotation: what C5 must tell from the code.
PropEndThenTerminator(q, prop, st) ==
    LET term == expectOp(q, "terminator")
    IN IF term.err # "" THEN Step(st.nodes, st.syms, term.q, "error", prop)
       ELSE
       LET obsolete == optionalToken(term.q, obsoleteToken)
           reason == optionalOp(obsolete.q, "string")
           semi == optionalOp(reason.q, "terminator")
       IN IF obsolete.tok = NoToken
          THEN Step(st.nodes, st.syms, obsolete.q, "ok", prop)
          ELSE Step([st.nodes EXCEPT
                        ![prop].Obsolete = TRUE,
                        ![prop].ObsoleteReason =
                            IF reason.tok # NoToken THEN reason.tok.Value
                            ELSE ""],
                    st.syms, semi.q, "ok", prop)

\* The end of analyzeProperty: the terminator and the obsolete annotation.
PropEnd(q, prop, st) ==
    LET term == expectOp(q, "terminator")
    IN IF term.err # "" THEN Step(st.nodes, st.syms, term.q, "error", prop)
       ELSE
       LET obsolete == optionalToken(term.q, obsoleteToken)
           reason == optionalOp(obsolete.q, "string")
           semi == optionalOp(reason.q, "terminator")
       IN IF obsolete.tok = NoToken
          THEN Step(st.nodes, st.syms, obsolete.q, "ok", prop)
          ELSE IF reason.tok # NoToken
          THEN Step([st.nodes EXCEPT ![prop].Obsolete = TRUE,
                                     ![prop].ObsoleteReason = reason.tok.Value],
                    st.syms, reason.q, "ok", prop)
          ELSE Step([st.nodes EXCEPT ![prop].Obsolete = TRUE],
                    st.syms, semi.q, "ok", prop)

(***************************************************************************)
(* The files analysed.  A file is the token queue Tokenize makes of it.    *)
(***************************************************************************)
\* Top-level items of the main file, at most.
MaxItems == 2
\* Top-level items of the imported file, at most.
MaxImportItems == 1
\* Analyze calls nested by imports, at most.
MaxDepth == 3

Class(name, qual, props) ==
    <<Id("class"), Id(name)>> \o qual \o <<Oper("{")>> \o props
        \o <<Oper("}"), Term>>
Enum(name, qual, flags, props) ==
    <<Id("enum"), Id(name)>> \o qual \o flags \o <<Oper("{")>> \o props
        \o <<Oper("}"), Term>>
Qual(name) == <<Oper("<"), Id(name), Oper(">")>>

Items ==
    { Class("A", <<>>, <<>>),
      Class("B", Qual("A"), <<>>),
      Enum("E", <<>>, <<>>, <<Id("a"), Term, Id("b"), Term>>),
      Class("C", <<>>, <<Id("uint"), Id("x"), Oper("="),
                         Id("E"), Ns, Id("b"), Term>>),
      Class("C", <<>>, <<Id("uint"), Id("x"), Oper("="),
                         Id("E"), Ns, Id("C"), Term>>),
      Enum("MyEnum2", <<>>, <<Id("Flags")>>, <<Id("y"), Term>>),
      Class("K", <<>>, <<Id("const"), Id("uint"), Id("C"), Oper("="),
                         Id("1"), Term,
                         Id("y"), Oper("="), Id("C"), Oper("|"),
                         Id("MyEnum2"), Ns, Id("y"), Term>>),
      Class("O", <<>>, <<Id("old"), Id("string"), Term,
                         Id("obsolete"), Str("reason"), Term>>),
      Class("O", <<>>, <<Id("old"), Id("string"), Term,
                         Id("obsolete"), Str("reason")>>),
      Class("O", <<>>, <<Id("old"), Id("string"), Term,
                         Id("OBSOLETE"), Term, Id("a"), Term>>),
      Class("B", <<>>, <<Id("A"), Id("x"), Term>>),
      Enum("A", Qual("B"), <<>>, <<>>),
      <<Pre("import"), Str("f")>>,
      <<Pre("pragma"), Str("s")>>,
      <<Pre("pragma")>>,
      <<Inv("&")>> }

ImportItems ==
    { Class("A", <<>>, <<>>),
      Class("B", Qual("A"), <<>>),
      Enum("E", <<>>, <<>>, <<Id("a"), Term, Id("b"), Term>>),
      <<Pre("import"), Str("f")>> }

RECURSIVE Concat(_)
Concat(ss) == IF ss = <<>> THEN <<>> ELSE Head(ss) \o Concat(Tail(ss))

Programs(items, max) ==
    {Concat(p) : p \in UNION {[1..k -> items] : k \in 0..max}}

HasImport(q) == \E i \in 1..Len(q) : q[i] = Pre("import")

(***************************************************************************)
(* The Analyzer as a state machine.  `stack` holds one frame per Analyze   *)
(* call in progress, the innermost last: its file, what is left of its     *)
(* token queue, its root, and where its productions stand:                 *)
(*   pc "top"     in the loop of Analyze,                                  *)
(*   pc "scope"   in the loop of analyzeScope, for the node `scope`,       *)
(*   pc "default" in the default-chain loop of analyzeProperty for `prop`, *)
(*   pc "propend" in analyzeProperty after the default chain.              *)
(* chain is the identifiers the default chain of `prop` has read.          *)
(***************************************************************************)
Frame(filename, tokens, root) ==
    [filename |-> filename, tokens |-> tokens, root |-> root, pc |-> "top",
     scope |-> Nil, prop |-> Nil, chain |-> <<>>]

Top == stack[Len(stack)]
SetTop(f) == [stack EXCEPT ![Len(stack)] = f]

\* The loops going on after an error was returned: what C18 must tell from
\* the code.
RunningAfterError == status \in {"running", "error"} /\ stack # <<>>

\* Analyze and the productions run while no error was returned: every
\* `if err != nil { return err }` up to Analyze's own ends the run.
Running == status = "running" /\ stack # <<>>

\* NewAnalyzer(NewTokenizer(data), "main").Analyze() up to its loop:
\* root := NewNode(nil); a.tokens = Tokenize().
Init ==
    /\ \E main \in Programs(Items, MaxItems) :
         \E imp \in IF HasImport(main)
                    THEN Programs(ImportItems, MaxImportItems)
                    ELSE {<<>>} :
            files = [main |-> main, f |-> imp]
    /\ nodes = <<NodeRec("node", Nil)>>
    /\ syms = <<>>
    /\ stack = <<Frame("main", files.main, 1)>>
    /\ status = "running"
    /\ last = NoCall
    /\ lex = <<>>
    /\ queue = <<>>

AnFrame == UNCHANGED <<files, last, lex, queue>>

\* A production's step that, when it fails in an imported file, still has
\* the importing root adopt the children made so far: what C21 must tell
\* from the code.
LandAdopting(r, pc, scope, prop, chain) ==
    /\ nodes' = IF r.res = "error" /\ Len(stack) > 1
                THEN AdoptChildren(r.nodes, stack[Len(stack) - 1].root,
                                   Top.root)
                ELSE r.nodes
    /\ syms' = r.syms
    /\ status' = IF r.res \in {"error", "panic"} THEN r.res ELSE "running"
    /\ stack' = SetTop(IF r.res \in {"error", "panic"}
                       THEN [Top EXCEPT !.tokens = r.q]
                       ELSE [Top EXCEPT !.tokens = r.q, !.pc = pc,
                                        !.scope = scope, !.prop = prop,
                                        !.chain = chain])
    /\ AnFrame

\* What a production's step leaves: the heap, the queue, and the place the
\* frame goes on from, or the error or panic that ends every Analyze.
Land(r, pc, scope, prop, chain) ==
    /\ nodes' = r.nodes
    /\ syms' = r.syms
    /\ status' = IF r.res \in {"error", "panic"} THEN r.res ELSE "running"
    /\ stack' = SetTop(IF r.res \in {"error", "panic"}
                       THEN [Top EXCEPT !.tokens = r.q]
                       ELSE [Top EXCEPT !.tokens = r.q, !.pc = pc,
                                        !.scope = scope, !.prop = prop,
                                        !.chain = chain])
    /\ AnFrame

\* Analyze: the loop ends on an empty queue and Analyze returns root, nil.
\* The Analyze of an imported file returns into importFile, which makes
\* root.AdoptChildren(importRoot) and root.ImportSymbols(importRoot).
AnalyzeReturn ==
    /\ Running
    /\ Top.pc = "top" /\ Top.tokens = <<>>
    /\ IF Len(stack) = 1
       THEN /\ status' = "ok"
            /\ UNCHANGED <<nodes, syms, stack>>
       ELSE LET root == stack[Len(stack) - 1].root
                importRoot == Top.root
                r == ImportSymbols([nodes |-> AdoptChildren(nodes, root,
                                                            importRoot),
                                    syms |-> syms], root, importRoot)
            IN /\ nodes' = r.nodes
               /\ syms' = r.syms
               /\ stack' = SubSeq(stack, 1, Len(stack) - 1)
               /\ UNCHANGED status
    /\ AnFrame

\* handleToken, default case, and handleIdentifierToken, default case.
InvalidToken ==
    /\ Running
    /\ Top.pc = "top" /\ Top.tokens # <<>>
    /\ LET t == Head(Top.tokens)
       IN \/ t.Op \notin {"preprocess", "identifier"}
          \/ t.Op = "identifier" /\ t.Value \notin {"class", "enum"}
    /\ status' = "error"
    /\ stack' = SetTop([Top EXCEPT !.tokens = Tail(@)])
    /\ UNCHANGED <<nodes, syms>>
    /\ AnFrame

\* filepath.Join(filepath.Dir(a.filename), filename): the files are in one
\* directory and named by their base names.
ImportPath(importer, filename) == filename

\* handlePreprocessToken expecting the string only after `import`: what C7
\* must tell from the code.
handlePreprocessTokenImportOnly(t, q) ==
    IF t.Value = "import"
    THEN LET nextToken == expectOp(q, "string")
         IN [q |-> nextToken.q, err |-> nextToken.err,
             import |-> nextToken.err = "",
             filename |-> nextToken.tok.Value]
    ELSE [q |-> q, err |-> "", import |-> FALSE, filename |-> ""]

\* handlePreprocessToken up to the call of importFile: the token after the
\* directive must be a string, whatever the directive; `import` tells
\* whether importFile is called with it.
handlePreprocessToken(t, q) ==
    LET nextToken == expectOp(q, "string")
    IN [q |-> nextToken.q, err |-> nextToken.err,
        import |-> nextToken.err = "" /\ t.Value = "import",
        filename |-> nextToken.tok.Value]

\* What stands for a file whose bytes Tokenize rejects (countRunes fails):
\* Tokenize returns the error, and the tokens queued before it are not read.
LexFailure == <<Tok("error", "Invalid UTF-8 char")>>

\* handlePreprocessToken and importFile refusing a file whose Analyze is in
\* progress: what C23 must tell from the code.
HandlePreprocessTokenGuarded ==
    /\ Running
    /\ Top.pc = "top" /\ Top.tokens # <<>>
    /\ Head(Top.tokens).Op = "preprocess"
    /\ LET h == handlePreprocessToken(Head(Top.tokens), Tail(Top.tokens))
           input == ImportPath(Top.filename, h.filename)
       IN IF \/ h.err # ""
             \/ h.import /\ input \notin DOMAIN files
             \/ h.import /\ \E i \in 1..Len(stack) :
                                 stack[i].filename = input
          THEN /\ status' = "error"
               /\ stack' = SetTop([Top EXCEPT !.tokens = h.q])
               /\ UNCHANGED <<nodes, syms>>
          ELSE IF ~h.import
          THEN /\ stack' = SetTop([Top EXCEPT !.tokens = h.q])
               /\ UNCHANGED <<nodes, syms, status>>
          ELSE IF files[input] = LexFailure
          THEN /\ status' = "error"
               /\ nodes' = NewNodeOf(nodes, "node", Nil)
               /\ stack' = SetTop([Top EXCEPT !.tokens = h.q])
               /\ UNCHANGED syms
          ELSE /\ Len(stack) < MaxDepth
               /\ nodes' = NewNodeOf(nodes, "node", Nil)
               /\ stack' = Append(SetTop([Top EXCEPT !.tokens = h.q]),
                                   Frame(input, files[input],
                                         Len(nodes) + 1))
               /\ UNCHANGED <<syms, status>>
    /\ AnFrame

\* handlePreprocessToken, and importFile up to importAnalyzer.Analyze():
\* a file that cannot be opened or read is an error; else a new Analyzer
\* makes a new root and tokenizes the file, returns the error when that
\* fails, and else analyses the file's tokens.
HandlePreprocessToken ==
    /\ Running
    /\ Top.pc = "top" /\ Top.tokens # <<>>
    /\ Head(Top.tokens).Op = "preprocess"
    /\ LET h == handlePreprocessToken(Head(Top.tokens), Tail(Top.tokens))
           input == ImportPath(Top.filename, h.filename)
       IN IF h.err # ""
          THEN /\ status' = "error"
               /\ stack' = SetTop([Top EXCEPT !.tokens = h.q])
               /\ UNCHANGED <<nodes, syms>>
          ELSE IF ~h.import
          THEN /\ stack' = SetTop([Top EXCEPT !.tokens = h.q])
               /\ UNCHANGED <<nodes, syms, status>>
          ELSE IF input \notin DOMAIN files
          THEN /\ status' = "error"
               /\ stack' = SetTop([Top EXCEPT !.tokens = h.q])
               /\ UNCHANGED <<nodes, syms>>
          ELSE IF files[input] = LexFailure
          THEN /\ status' = "error"
               /\ nodes' = NewNodeOf(nodes, "node", Nil)
               /\ stack' = SetTop([Top EXCEPT !.tokens = h.q])
               /\ UNCHANGED syms
          ELSE /\ Len(stack) < MaxDepth
               /\ nodes' = NewNodeOf(nodes, "node", Nil)
               /\ stack' = Append(SetTop([Top EXCEPT !.tokens = h.q]),
                                   Frame(input, files[input],
                                         Len(nodes) + 1))
               /\ UNCHANGED <<syms, status>>
    /\ AnFrame

\* handleIdentifierToken "class": analyzeClass up to its scope loop.
AnalyzeClass ==
    /\ Running
    /\ Top.pc = "top" /\ Top.tokens # <<>>
    /\ Head(Top.tokens) = Id("class")
    /\ LET r == DeclHead("class", Tail(Top.tokens), Top.root, Heap)
       IN Land(r, "scope", r.node, Nil, <<>>)

\* handleIdentifierToken "enum": analyzeEnum up to its scope loop.
AnalyzeEnum ==
    /\ Running
    /\ Top.pc = "top" /\ Top.tokens # <<>>
    /\ Head(Top.tokens) = Id("enum")
    /\ LET r == DeclHead("enum", Tail(Top.tokens), Top.root, Heap)
       IN Land(r, "scope", r.node, Nil, <<>>)

\* analyzeScope finds '}' and returns; analyzeClass / analyzeEnum expect
\* the terminator and return to the loop of Analyze.
CloseScope ==
    /\ Running
    /\ Top.pc = "scope"
    /\ optionalToken(Top.tokens, closeScopeToken).tok # NoToken
    /\ LET close == optionalToken(Top.tokens, closeScopeToken)
           term == expectOp(close.q, "terminator")
       IN Land(Step(nodes, syms, term.q,
                    IF term.err # "" THEN "error" ELSE "ok", Nil),
               "top", Nil, Nil, <<>>)

\* analyzeScope finds no '}' and calls analyzeProperty.
AnalyzeProperty ==
    /\ Running
    /\ Top.pc = "scope"
    /\ optionalToken(Top.tokens, closeScopeToken).tok = NoToken
    /\ LET r == PropHead(Top.tokens, Top.scope, Heap)
       IN Land(r, IF r.res = "default" THEN "default" ELSE "propend",
               Top.scope, r.node, <<>>)

\* analyzeProperty: one round of the default-chain loop.
AnalyzeDefault ==
    /\ Running
    /\ Top.pc = "default"
    /\ LET r == DefaultRound(Top.tokens, Top.prop, Heap)
           ids == getNamespacedIdentifier(Top.tokens)
       IN Land(r, IF r.res = "default" THEN "default" ELSE "propend",
               Top.scope, Top.prop,
               Append(Top.chain, tokenStringValues(ids.toks)))

\* analyzeProperty: the terminator and the obsolete annotation; back to
\* the loop of analyzeScope.
AnalyzePropertyEnd ==
    /\ Running
    /\ Top.pc = "propend"
    /\ LET r == PropEnd(Top.tokens, Top.prop, Heap)
       IN Land(r, "scope", Top.scope, Top.prop, Top.chain)

Next ==
    \/ AnalyzeReturn
    \/ InvalidToken
    \/ HandlePreprocessToken
    \/ AnalyzeClass
    \/ AnalyzeEnum
    \/ CloseScope
    \/ AnalyzeProperty
    \/ AnalyzeDefault
    \/ AnalyzePropertyEnd

Spec == Init /\ [][Next]_vars

(***************************************************************************)
(* The Analyzer on a file that uses every production, and an imported      *)
(* file, each as written or with one of its tokens replaced by an invalid  *)
(* token (a span the pattern classifies as invalid, wherever it stands).   *)
(***************************************************************************)
FaultMain ==
    <<Pre("pragma"), Str("s")>>
       \o Enum("E", <<>>, <<>>, <<Id("a"), Term, Id("b"), Term>>)
       \o <<Pre("import"), Str("f")>>
       \o Class("C", Qual("A"),
                <<Id("uint"), Id("x"), Oper("="), Id("E"), Ns, Id("b"),
                  Oper("|"), Id("a"), Term,
                  Id("k"), Oper("<"), Id("E"), Oper(">"), Id("uint"),
                  Id("z"), Term,
                  Id("old"), Term, Id("obsolete"), Term>>)

FaultImport == Class("A", <<>>, <<Id("y"), Term>>)

\* Tokens of a file replaced by invalid tokens, at most.
MaxFaults == 1

\* p, and p with the tokens at up to k places replaced by invalid tokens.
RECURSIVE FaultedUpTo(_, _)
FaultedUpTo(p, k) ==
    IF k = 0 THEN {p}
    ELSE FaultedUpTo(p, k - 1)
            \cup {[q EXCEPT ![i] = Inv("&")] :
                     q \in FaultedUpTo(p, k - 1), i \in 1..Len(p)}

Faulted(p) == FaultedUpTo(p, MaxFaults)

\* The imported file is there as written or faulted, is there but not
\* tokenizable, or is not there at all.
FaultInit ==
    /\ \E main \in Faulted(FaultMain) :
         \E imp \in IF HasImport(main)
                    THEN Faulted(FaultImport) \cup {LexFailure}
                    ELSE {FaultImport} :
            \/ files = [main |-> main, f |-> imp]
            \/ HasImport(main) /\ imp = FaultImport
                  /\ files = [main |-> main]
    /\ nodes = <<NodeRec("node", Nil)>>
    /\ syms = <<>>
    /\ stack = <<Frame("main", files.main, 1)>>
    /\ status = "running"
    /\ last = NoCall
    /\ lex = <<>>
    /\ queue = <<>>

FaultSpec == FaultInit /\ [][Next]_vars

(***************************************************************************)
(* The Analyzer running to its end: files that import one another.  The    *)
(* program is one sequential thread, which takes its next step whenever it *)
(* has one, hence the weak fairness of its steps.                          *)
(***************************************************************************)
\* Imported files that import the main file back, at the start or after a
\* declaration.
CycleImports ==
    { <<Pre("import"), Str("main")>>,
      Class("A", <<>>, <<>>) \o <<Pre("import"), Str("main")>> }

LiveInit ==
    /\ \E main \in Programs(Items, MaxItems) :
         \E imp \in IF HasImport(main)
                    THEN Programs(ImportItems, MaxImportItems)
                            \cup CycleImports
                    ELSE {<<>>} :
            files = [main |-> main, f |-> imp]
    /\ nodes = <<NodeRec("node", Nil)>>
    /\ syms = <<>>
    /\ stack = <<Frame("main", files.main, 1)>>
    /\ status = "running"
    /\ last = NoCall
    /\ lex = <<>>
    /\ queue = <<>>

\* importFile at the depth where the model stops following imports: the
\* one state of a running analysis that has no step in the model.
AtDepthBound ==
    /\ Len(stack) = MaxDepth
    /\ Top.pc = "top" /\ Len(Top.tokens) >= 2
    /\ Top.tokens[1] = Pre("import") /\ Top.tokens[2].Op = "string"
    /\ ImportPath(Top.filename, Top.tokens[2].Value) \in DOMAIN files
    /\ files[ImportPath(Top.filename, Top.tokens[2].Value)] # LexFailure

\* The states where Next has a step: each action is total on its guard, and
\* the guards cover every state of a running analysis but AtDepthBound.
CanStep == Running /\ ~AtDepthBound

\* Weak fairness of Next, with ENABLED <<Next>>_vars written as the state
\* predicate it equals: an analysis that can go on does go on.
Scheduled == []<>(~CanStep) \/ []<><<Next>>_vars

LiveSpec ==
    /\ LiveInit /\ [][Next]_vars
    /\ WF_vars(InvalidToken)
    /\ Scheduled

(***************************************************************************)
(* token.go: the Tokenizer.  The input is its sequence of characters; one  *)
(* step is one iteration of the loop of tokenize over the matches of the   *)
(* pattern, which FindAllSubmatchIndex finds one after the other from the  *)
(* left: every character starts a match (a whitespace run or, at the       *)
(* least, an invalid run), so the next match starts where the last ended.  *)
(***************************************************************************)
\* Characters of an input, at most.
MaxLen == 3

\* A character of two bytes, the character U+FFFD (three bytes) and a byte
\* that is no UTF-8 encoding.
EAcute == "U+00E9"
Replacement == "U+FFFD"
BadByte == "0xFF"

\* The characters the inputs are made of: one or two of each class the
\* pattern tells apart.
Alphabet == {"a", "-", ";", ":", "#", "{", "\"", "/", " ", "\n",
             EAcute, Replacement, BadByte}

Inputs == UNION {[1..k -> Alphabet] : k \in 0..MaxLen}

\* The character classes of the pattern, on the alphabet.
Whitespace == {" ", "\n"}
IdentStart == {"a"}
IdentRest == {"a"}
Letters == {"a"}
Operators == {"{"}
NonSpace == Alphabet \ Whitespace

\* The end (exclusive) of the longest run of characters of cls from i.
RECURSIVE RunEnd(_, _, _)
RunEnd(data, i, cls) ==
    IF i > Len(data) THEN i
    ELSE IF data[i] \notin cls THEN i
    ELSE RunEnd(data, i + 1, cls)

\* ["](.+?)["] from the quote at i: the index of the nearest closing quote
\* with at least one character, and no line break, before it; 0 for none.
RECURSIVE StringScan(_, _)
StringScan(data, j) ==
    IF j > Len(data) THEN 0
    ELSE IF data[j - 1] = "\n" THEN 0
    ELSE IF data[j] = "\"" THEN j
    ELSE StringScan(data, j + 1)

StringEnd(data, i) == IF i + 2 > Len(data) THEN 0 ELSE StringScan(data, i + 2)

\* One match: its group, the matched range [from, to) and the captured
\* range [cfrom, cto).
Match(group, from, to, cfrom, cto) ==
    [group |-> group, from |-> from, to |-> to, cfrom |-> cfrom, cto |-> cto]

\* The match of the pattern at i: the first alternative, in the order of
\* the pattern, that matches there.
MatchAt(data, i) ==
    LET c == data[i]
        c2 == IF i < Len(data) THEN data[i + 1] ELSE ""
    IN IF c \in Whitespace
       THEN Match("whitespace", i, RunEnd(data, i, Whitespace),
                  i, RunEnd(data, i, Whitespace))
       ELSE IF c = ";" THEN Match("terminator", i, i + 1, i, i + 1)
       ELSE IF c = "\"" /\ StringEnd(data, i) # 0
       THEN Match("string", i, StringEnd(data, i) + 1,
                  i + 1, StringEnd(data, i))
       ELSE IF c = "/" /\ c2 = "/"
       THEN Match("comment", i, RunEnd(data, i + 2, Alphabet \ {"\n"}),
                  i + 2, RunEnd(data, i + 2, Alphabet \ {"\n"}))
       ELSE IF c \in IdentStart
       THEN Match("identifier", i, RunEnd(data, i + 1, IdentRest),
                  i, RunEnd(data, i + 1, IdentRest))
       ELSE IF c = "-" /\ c2 \in IdentStart
       THEN Match("identifier", i, RunEnd(data, i + 2, IdentRest),
                  i, RunEnd(data, i + 2, IdentRest))
       ELSE IF c = ":" /\ c2 = ":" THEN Match("namespace", i, i + 2, i, i + 2)
       ELSE IF c = "#"
       THEN Match("preprocess", i, RunEnd(data, i + 1, Letters),
                  i + 1, RunEnd(data, i + 1, Letters))
       ELSE IF c \in Operators THEN Match("operator", i, i + 1, i, i + 1)
       ELSE Match("invalid", i, RunEnd(data, i, NonSpace),
                  i, RunEnd(data, i, NonSpace))

\* The bytes of a character of the alphabet, as the input file holds them:
\* ASCII, the two bytes of U+00E9, the three bytes of U+FFFD, and a byte
\* that no encoding holds.
Ascii == ("a" :> 97) @@ ("-" :> 45) @@ (";" :> 59) @@ (":" :> 58)
         @@ ("#" :> 35) @@ ("{" :> 123) @@ ("\"" :> 34) @@ ("/" :> 47)
         @@ (" " :> 32) @@ ("\n" :> 10)

BytesOf(c) ==
    CASE c = EAcute -> <<195, 169>>
      [] c = Replacement -> <<239, 191, 189>>
      [] c = BadByte -> <<255>>
      [] OTHER -> <<Ascii[c]>>

RECURSIVE Bytes(_)
Bytes(chars) ==
    IF chars = <<>> THEN <<>> ELSE BytesOf(Head(chars)) \o Bytes(Tail(chars))

\* utf8.RuneError, the rune DecodeRune returns for an invalid encoding; it
\* is U+FFFD, a character that has an encoding of its own.
RuneError == 65533

\* The byte of data at i, or 0 - 1 past the end.
ByteAt(data, i) == IF i <= Len(data) THEN data[i] ELSE 0 - 1

Continuation(b) == b >= 128 /\ b <= 191

\* utf8.DecodeRune(data[pos:]) for pos within data: the rune and its width.
\* An invalid or short encoding is (RuneError, 1).  The second byte's range
\* shuts out the overlong forms, the surrogates and what lies above
\* U+10FFFF.
DecodeRune(data, pos) ==
    LET b0 == data[pos]
        b1 == ByteAt(data, pos + 1)
        b2 == ByteAt(data, pos + 2)
        b3 == ByteAt(data, pos + 3)
        lo == CASE b0 = 224 -> 160 [] b0 = 240 -> 144 [] OTHER -> 128
        hi == CASE b0 = 237 -> 159 [] b0 = 244 -> 143 [] OTHER -> 191
        bad == [r |-> RuneError, s |-> 1]
    IN IF b0 < 128 THEN [r |-> b0, s |-> 1]
       ELSE IF b0 < 194 \/ b0 > 244 THEN bad
       ELSE IF b1 < lo \/ b1 > hi THEN bad
       ELSE IF b0 < 224
       THEN [r |-> (b0 % 32) * 64 + (b1 % 64), s |-> 2]
       ELSE IF ~Continuation(b2) THEN bad
       ELSE IF b0 < 240
       THEN [r |-> ((b0 % 16) * 64 + (b1 % 64)) * 64 + (b2 % 64), s |-> 3]
       ELSE IF ~Continuation(b3) THEN bad
       ELSE [r |-> (((b0 % 8) * 64 + (b1 % 64)) * 64 + (b2 % 64)) * 64
                      + (b3 % 64),
             s |-> 4]

\* countRunes: the loop over the runes DecodeRune yields.  '\n' adds a row
\* and resets cols, utf8.RuneError returns (-1, -1, error), any other rune
\* adds a column.
countStep(d, rows, cols) ==
    IF d.r = 10 THEN [rows |-> rows + 1, cols |-> 0, err |-> FALSE]
    ELSE IF d.r = RuneError
    THEN [rows |-> 0 - 1, cols |-> 0 - 1, err |-> TRUE]
    ELSE [rows |-> rows, cols |-> cols + 1, err |-> FALSE]

RECURSIVE countFrom(_, _, _, _)
countFrom(data, pos, rows, cols) ==
    IF pos > Len(data) THEN [rows |-> rows, cols |-> cols, err |-> FALSE]
    ELSE IF countStep(DecodeRune(data, pos), rows, cols).err
    THEN countStep(DecodeRune(data, pos), rows, cols)
    ELSE countFrom(data, pos + DecodeRune(data, pos).s,
                   countStep(DecodeRune(data, pos), rows, cols).rows,
                   countStep(DecodeRune(data, pos), rows, cols).cols)

countRunes(data) == countFrom(data, 1, 0, 0)

Slice(data, from, to) == SubSeq(data, from, to - 1)

\* &Token{Op, Name, Value: captured, Raw: matched, Row, Col}.  `at` is no
\* field of Token: it is matchIndex[0], the place of the match in the
\* input, kept to state where a token starts.
Token(op, value, raw, row, col, at) ==
    [Op |-> op, Value |-> value, Raw |-> raw, Row |-> row, Col |-> col,
     at |-> at]

\* row += rows; if rows > 0 { col = cols } else { col += cols }
Advance(lx, m, c) ==
    [lx EXCEPT !.pos = m.to,
               !.row = lx.row + c.rows,
               !.col = IF c.rows > 0 THEN c.cols ELSE lx.col + c.cols]

\* NewTokenizer(data).Tokenize() up to the loop: row := 1; col := 1.
LexInit ==
    /\ \E data \in Inputs :
          lex = [data |-> data, pos |-> 1, row |-> 1, col |-> 1,
                 q |-> <<>>, state |-> "scan"]
    /\ nodes = <<>>
    /\ syms = <<>>
    /\ last = NoCall
    /\ files = <<>>
    /\ stack = <<>>
    /\ status = "lex"
    /\ queue = <<>>

LexFrame == UNCHANGED <<nodes, syms, last, files, stack, status, queue>>

Scanning == status = "lex" /\ lex.state = "scan" /\ lex.pos <= Len(lex.data)

NextMatch == MatchAt(lex.data, lex.pos)
NextCount ==
    countRunes(Bytes(Slice(lex.data, NextMatch.from, NextMatch.to)))

\* The groups with only whitespace skipped, comments being queued as
\* tokens: what C14 must tell from the code.
SkippedWhitespaceOnly == {"whitespace"}

\* if group == "comment" || group == "whitespace" { break }
Skipped == {"comment", "whitespace"}

\* countRunes fails: tokenize returns the error.
LexError ==
    /\ Scanning
    /\ NextCount.err
    /\ lex' = [lex EXCEPT !.state = "error"]
    /\ LexFrame

\* A whitespace or comment match: the position moves and nothing is queued.
LexSkip ==
    /\ Scanning
    /\ ~NextCount.err
    /\ NextMatch.group \in Skipped
    /\ lex' = Advance(lex, NextMatch, NextCount)
    /\ LexFrame

\* Any other match: the position moves, then the token is built and queued.
LexToken ==
    /\ Scanning
    /\ ~NextCount.err
    /\ NextMatch.group \notin Skipped
    /\ LET m == NextMatch
           lx == Advance(lex, m, NextCount)
       IN lex' = [lx EXCEPT !.q = Append(@,
                     Token(m.group, Slice(lex.data, m.cfrom, m.cto),
                           Slice(lex.data, m.from, m.to),
                           lx.row, lx.col, m.from))]
    /\ LexFrame

\* No match is left: tokenize returns nil.
LexReturn ==
    /\ status = "lex" /\ lex.state = "scan" /\ lex.pos > Len(lex.data)
    /\ lex' = [lex EXCEPT !.state = "done"]
    /\ LexFrame

LexNext ==
    \/ LexError
    \/ LexSkip
    \/ LexToken
    \/ LexReturn

LexSpec == LexInit /\ [][LexNext]_vars

(***************************************************************************)
(* countRunes called on its own, on any byte string of a few bytes (as     *)
(* TestCountRunes calls it): `lex` holds the bytes and what was returned.  *)
(***************************************************************************)
\* Bytes of an argument of countRunes, at most.
MaxBytes == 3

\* 'a', '\n', '\r', the bytes of U+00E9 and of U+FFFD, and 0xFF.
ByteAlphabet == {97, 10, 13, 195, 169, 239, 191, 189, 255}

ByteStrings == UNION {[1..k -> ByteAlphabet] : k \in 0..MaxBytes}

CountInit ==
    /\ \E data \in ByteStrings :
          lex = [data |-> data, state |-> "call",
                 rows |-> 0, cols |-> 0, err |-> FALSE]
    /\ nodes = <<>>
    /\ syms = <<>>
    /\ last = NoCall
    /\ files = <<>>
    /\ stack = <<>>
    /\ status = "count"
    /\ queue = <<>>

\* rows, cols, err := countRunes(data)
CallCountRunes ==
    /\ status = "count" /\ lex.state = "call"
    /\ lex' = [lex EXCEPT !.state = "returned",
                          !.rows = countRunes(lex.data).rows,
                          !.cols = countRunes(lex.data).cols,
                          !.err = countRunes(lex.data).err]
    /\ LexFrame

CountNext == CallCountRunes

CountSpec == CountInit /\ [][CountNext]_vars

(***************************************************************************)
(* Claims about the Node interface (NodeSpec)                              *)
(***************************************************************************)

\* No table on the chain n, parent(n), ..., root holds `value`.
NotOnChain(ns, n, value) ==
    \A m \in ChainSet(ns, n) : value \notin DOMAIN ns[m].symbols

\* The step is the call FindSymbol(value, create=true) on n, made when no
\* table on n's chain held the (non-empty) name.
FindCreateStep(n, value) ==
    /\ last'.op = "FindSymbol" /\ last'.create
    /\ last'.n = n /\ last'.value = value
    /\ value # ""
    /\ NotOnChain(nodes, n, value)

\* C1 as claimed: FindSymbol(name, create=true) on N, when no table on N's
\* chain holds the name, declares the new symbol in N's own table, with no
\* resolved node, and leaves every ancestor's table unchanged.
C1_InStartNode ==
    [][\A n \in NodeIds, v \in ApiNames :
          FindCreateStep(n, v) =>
             /\ v \in DOMAIN nodes'[n].symbols
             /\ syms'[nodes'[n].symbols[v]].Node = Nil
             /\ \A m \in ChainSet(nodes, n) \ {n} :
                   nodes'[m].symbols = nodes[m].symbols]_vars

\* C1 amended: the new symbol is declared in the table of the root of N's
\* chain (N's topmost ancestor, N itself only when N is the root); it is
\* the symbol returned, its scope is that root and its node is the root's
\* owner (nil for a root made by NewNode); every other table, N's included
\* when N is not the root, is unchanged.
C1_InRoot ==
    [][\A n \in NodeIds, v \in ApiNames :
          FindCreateStep(n, v) =>
             LET root == RootOf(nodes, n)
                 s == Len(syms) + 1
             IN /\ ~last'.panic
                /\ last'.sym = s
                /\ Len(syms') = s
                /\ syms'[s] = [Value |-> v, Scope |-> root,
                               Node |-> Owner(nodes, root)]
                /\ nodes'[root].symbols = nodes[root].symbols @@ (v :> s)
                /\ \A m \in NodeIds \ {root} : nodes'[m] = nodes[m]
                /\ \A t \in SymIds : syms'[t] = syms[t]]_vars

\* C1 witness: a call with create=true from a node two levels below the
\* root made a symbol, and the symbol is in the root's table.
C1_Witness ==
    /\ last.op = "FindSymbol" /\ last.create /\ last.made = 1
    /\ Len(Chain(nodes, last.n)) = 3
    /\ syms[last.sym].Scope = RootOf(nodes, last.n)
    /\ last.value \notin DOMAIN nodes[last.n].symbols

\* C8: AddSymbol(s) on N panics exactly when s is nil, s has an empty name
\* or N's own table holds the name (a name held only by an ancestor is no
\* obstacle); a panicking call changes no table and no symbol; a successful
\* one maps the name to s in N's table, sets s's scope to N and changes
\* nothing else.  So a second declaration of a name in one scope fails.
C8_AddSymbol ==
    [][\A n \in NodeIds :
          (last'.op = "AddSymbol" /\ last'.n = n) =>
             LET s == last'.s
                 v == last'.value
                 fail == \/ s = Nil
                         \/ v = ""
                         \/ v \in DOMAIN nodes[n].symbols
             IN /\ last'.panic <=> fail
                /\ \A m \in NodeIds \ {n} :
                      nodes'[m].symbols = nodes[m].symbols
                /\ \A t \in SymIds : syms'[t] = syms[t]
                /\ fail => /\ nodes'[n].symbols = nodes[n].symbols
                           /\ syms' = syms
                /\ ~fail => /\ nodes'[n].symbols =
                                  nodes[n].symbols @@ (v :> s)
                            /\ syms'[s].Scope = n
                            /\ syms'[s].Value = v]_vars

\* C8 witness: a second symbol of a name was refused by N's table, while
\* N's own symbol of that name shadows one an ancestor holds.
C8_Witness ==
    /\ last.op = "AddSymbol" /\ last.panic
    /\ last.s # Nil /\ last.value # ""
    /\ last.value \in DOMAIN nodes[last.n].symbols
    /\ \E m \in ChainSet(nodes, last.n) \ {last.n} :
          last.value \in DOMAIN nodes[m].symbols

\* C16: FindNestedSymbol creates no symbol for a component that is not the
\* last: for a path A::B called on a node whose chain holds A in no table,
\* the call returns nil and changes no table and no symbol (neither A nor B
\* is made).
C16_NoCreate ==
    [][(/\ last'.op = "FindNestedSymbol"
        /\ Len(last'.path) = 2
        /\ NotOnChain(nodes, last'.n, last'.path[1])) =>
          /\ last'.sym = Nil
          /\ ~last'.panic
          /\ nodes' = nodes
          /\ syms' = syms]_vars

\* C16 witness: A::B was looked up from a node below the root; A is in no
\* table of its chain, B is in one, and the call returned nil.
C16_Witness ==
    /\ last.op = "FindNestedSymbol"
    /\ last.path = <<"a", "b">>
    /\ last.sym = Nil
    /\ Len(Chain(nodes, last.n)) >= 2
    /\ NotOnChain(nodes, last.n, "a")
    /\ ~NotOnChain(nodes, last.n, "b")

\* The nearest node of the chain of n whose table holds value, or nil.
RECURSIVE Nearest(_, _, _)
Nearest(ns, n, value) ==
    IF n = Nil THEN Nil
    ELSE IF value \in DOMAIN ns[n].symbols THEN n
    ELSE Nearest(ns, ns[n].parent, value)

\* C17: FindSymbol(name, create=false) on N returns the symbol that the
\* nearest node of the chain N, parent(N), ..., root holding the name has
\* for it (an inner declaration shadows an outer one), nil when no table of
\* the chain holds it, and changes no table and no symbol.
C17_FindSymbol ==
    [][(last'.op = "FindSymbol" /\ ~last'.create) =>
          LET m == Nearest(nodes, last'.n, last'.value)
          IN /\ last'.sym = IF m = Nil THEN Nil
                            ELSE nodes[m].symbols[last'.value]
             /\ ~last'.panic
             /\ nodes' = nodes
             /\ syms' = syms]_vars

\* C17 witness: the name is held by the node asked and by a node above it,
\* with different symbols, and the call returned the nearer one.
C17_Witness ==
    /\ last.op = "FindSymbol" /\ ~last.create
    /\ last.value \in DOMAIN nodes[last.n].symbols
    /\ last.sym = nodes[last.n].symbols[last.value]
    /\ \E m \in ChainSet(nodes, last.n) \ {last.n} :
          /\ last.value \in DOMAIN nodes[m].symbols
          /\ nodes[m].symbols[last.value] # last.sym

(***************************************************************************)
(* Claims about the Analyzer (Spec)                                        *)
(***************************************************************************)

\* The frame on top after the step.
TopNext == stack'[Len(stack')]

\* The files the examples of the claims are.
ClassA == Class("A", <<>>, <<>>)
ClassBofA == Class("B", Qual("A"), <<>>)
ImportF == <<Pre("import"), Str("f")>>
EnumE == Enum("E", <<>>, <<>>, <<Id("a"), Term, Id("b"), Term>>)
ClassCofEb ==
    Class("C", <<>>, <<Id("uint"), Id("x"), Oper("="),
                       Id("E"), Ns, Id("b"), Term>>)
EnumMyEnum2 == Enum("MyEnum2", <<>>, <<Id("Flags")>>, <<Id("y"), Term>>)
ClassK ==
    Class("K", <<>>, <<Id("const"), Id("uint"), Id("C"), Oper("="),
                       Id("1"), Term,
                       Id("y"), Oper("="), Id("C"), Oper("|"),
                       Id("MyEnum2"), Ns, Id("y"), Term>>)

\* The children of n named v.
Named(n, v) == {c \in NodeIds : nodes[c].parent = n /\ nodes[c].Value = v}

\* The loop of Analyze is about to analyse `class x` or `enum x`.
DeclAhead ==
    /\ Running
    /\ Top.pc = "top" /\ Len(Top.tokens) >= 2
    /\ Top.tokens[1] \in {Id("class"), Id("enum")}
    /\ Top.tokens[2].Op = "identifier"

\* root's table holds x for a symbol with no node: a reference made it.
Referenced(root, x) ==
    /\ x \in DOMAIN nodes[root].symbols
    /\ syms[nodes[root].symbols[x]].Node = Nil

\* C2 as claimed: the declaration of a name that earlier references at the
\* same root have already used (as a qualifier or a property type) is
\* analysed without a redeclaration failure.
C2_ForwardReference ==
    [][(DeclAhead /\ Referenced(Top.root, Top.tokens[2].Value))
          => status' # "panic"]_vars

\* The Analyze of an imported file is about to return into importFile.
ImportReturnAhead ==
    /\ Running
    /\ Top.pc = "top" /\ Top.tokens = <<>>
    /\ Len(stack) > 1

\* C3 as claimed: a class declared at the top level of the importing file
\* and in the imported file makes no failure, whichever of the import and
\* the declaration comes first.
C3_EitherOrder ==
    (files.f = ClassA /\ files.main \in {ClassA \o ImportF, ImportF \o ClassA})
       => status \notin {"error", "panic"}

\* C3 amended: when importFile merges the imported root, there is no
\* failure; a name both tables hold keeps the importing root's symbol and
\* the imported one is dropped, the other imported names are added.  A
\* declaration of a name the root's table already holds for a declared or
\* imported class (so: the import first, the declaration second) panics and
\* leaves the table as it was.
C3_DeclarationFirst ==
    [][/\ ImportReturnAhead =>
            LET root == stack[Len(stack) - 1].root
                imported == nodes[Top.root].symbols
                own == nodes[root].symbols
            IN /\ status' = "running"
               /\ DOMAIN nodes'[root].symbols = DOMAIN own \cup DOMAIN imported
               /\ \A v \in DOMAIN own : nodes'[root].symbols[v] = own[v]
               /\ \A v \in DOMAIN imported \ DOMAIN own :
                     nodes'[root].symbols[v] = imported[v]
       /\ (/\ DeclAhead
           /\ Top.tokens[2].Value \in DOMAIN nodes[Top.root].symbols
           /\ ~Referenced(Top.root, Top.tokens[2].Value)) =>
            /\ status' = "panic"
            /\ nodes'[Top.root].symbols = nodes[Top.root].symbols]_vars

\* C3 witness: `class A { }; #import "f"` with f = `class A { };` was
\* analysed: the root has both class nodes A as children, and its table
\* holds the symbol of the first; the imported symbol is in no table of the
\* tree under the root.
C3_Witness ==
    /\ status = "ok"
    /\ files.main = ClassA \o ImportF /\ files.f = ClassA
    /\ \E c1, c2 \in Named(1, "A") :
          /\ c1 # c2
          /\ syms[nodes[1].symbols["A"]].Node = c1
          /\ \E t \in SymIds : /\ syms[t].Node = c2
                               /\ syms[t].Scope # 1
                               /\ t # nodes[1].symbols["A"]

\* The nearest table from n up its chain that holds v.
Holder(ns, n, v) ==
    LET c == Chain(ns, n)
        I == {i \in 1..Len(c) : v \in DOMAIN ns[c[i]].symbols}
    IN c[CHOOSE i \in I : \A j \in I : i <= j]

\* FindSymbol(v, create=false) from n in the state as it is.
Lookup(n, v) == FindSymbol(Heap, n, v, FALSE).sym

\* The node the lookup of the second component of a path starts from.
Denoted(a) == IF syms[a].Node # Nil THEN syms[a].Node ELSE syms[a].Scope

\* The defaults of the property under analysis that were written A::B, as
\* <<index in the default list, A, B>>.
NestedDefaults ==
    {<<k, Top.chain[k][1], Top.chain[k][2]>> :
        k \in {i \in 1..Len(Top.chain) : Len(Top.chain[i]) = 2}}

\* C4 as claimed: whenever B is returned for A::B, its scope is the node A
\* denotes.
C4_ScopeIsDenoted ==
    (stack # <<>> /\ Top.prop # Nil) =>
       \A d \in NestedDefaults :
          syms[nodes[Top.prop].Default[d[1]]].Scope
             = Denoted(Lookup(Top.prop, d[2]))

\* C4 amended: for a default written A::B, A is found through the scope
\* chain of the property, and B is then looked up from the node A denotes
\* up that node's own parent chain: the symbol is the one the nearest table
\* on that chain holds, which is the root's when no nearer one holds B (B
\* is created there when no table held it).  For
\* `enum E { a; b; }; class C { uint x = E::b; };` the default list of x is
\* the one symbol b of E's table, whose scope is E's node.
C4_NestedScope ==
    /\ (stack # <<>> /\ Top.prop # Nil) =>
          \A d \in NestedDefaults :
             LET a == Lookup(Top.prop, d[2])
                 b == nodes[Top.prop].Default[d[1]]
             IN /\ a # Nil
                /\ b = nodes[Holder(nodes, Denoted(a), d[3])].symbols[d[3]]
                /\ syms[b].Value = d[3]
    /\ (status = "ok" /\ files.main = EnumE \o ClassCofEb) =>
          \E e \in Named(1, "E"), c \in Named(1, "C") :
             \E x \in Named(c, "x") :
                /\ nodes[x].Default = <<nodes[e].symbols["b"]>>
                /\ syms[nodes[e].symbols["b"]].Scope = e
                /\ syms[nodes[e].symbols["b"]].Value = "b"

\* C4 witness: a default A::B was resolved to a symbol whose scope is not
\* the node A denotes but an ancestor of it.
C4_Witness ==
    /\ stack # <<>> /\ Top.prop # Nil
    /\ \E d \in NestedDefaults :
          LET a == Lookup(Top.prop, d[2])
              b == nodes[Top.prop].Default[d[1]]
          IN /\ syms[b].Scope # Denoted(a)
             /\ syms[b].Scope \in ChainSet(nodes, Denoted(a))

\* analyzeProperty is about to expect the terminator of a property that an
\* obsolete annotation follows.
ObsoleteAhead ==
    /\ Running
    /\ Top.pc = "propend" /\ Len(Top.tokens) >= 3
    /\ Top.tokens[1] = Term
    /\ TokenEqual(Top.tokens[2], obsoleteToken)

\* C5 as claimed: after `obsolete "reason";` the scope loop goes on with the
\* token after the annotation's terminator.
C5_TerminatorConsumed ==
    [][(/\ ObsoleteAhead /\ Len(Top.tokens) >= 4
        /\ Top.tokens[3].Op = "string" /\ Top.tokens[4] = Term)
          => /\ status' = "running"
             /\ TopNext.tokens = SubSeq(Top.tokens, 5, Len(Top.tokens))]_vars

\* C5 amended: `; obsolete "reason"` sets obsolete with the reason and the
\* scope loop goes on with the token right after the string: a terminator
\* there is not consumed, and the property analysis the loop then starts
\* fails on it.  `; obsolete;` sets obsolete with an empty reason and
\* consumes the terminator.  The keyword is matched in any letter case.
C5_Obsolete ==
    [][/\ (ObsoleteAhead /\ Top.tokens[3].Op = "string") =>
            /\ status' = "running"
            /\ TopNext.pc = "scope"
            /\ nodes'[Top.prop].Obsolete
            /\ nodes'[Top.prop].ObsoleteReason = Top.tokens[3].Value
            /\ TopNext.tokens = SubSeq(Top.tokens, 4, Len(Top.tokens))
       /\ (ObsoleteAhead /\ Top.tokens[3] = Term) =>
            /\ status' = "running"
            /\ TopNext.pc = "scope"
            /\ nodes'[Top.prop].Obsolete
            /\ nodes'[Top.prop].ObsoleteReason = ""
            /\ TopNext.tokens = SubSeq(Top.tokens, 4, Len(Top.tokens))
       /\ (/\ Running /\ Top.pc = "scope"
           /\ Top.tokens # <<>> /\ Head(Top.tokens) = Term) =>
            status' = "error"]_vars

\* C5 witness: the property was marked obsolete with the reason "reason",
\* and the scope loop is left with the terminator that followed the string.
C5_Witness ==
    /\ Running
    /\ Top.pc = "scope" /\ Top.prop # Nil
    /\ nodes[Top.prop].Obsolete
    /\ nodes[Top.prop].ObsoleteReason = "reason"
    /\ Top.tokens # <<>> /\ Head(Top.tokens) = Term

\* The loop of Analyze is about to handle a directive other than import.
DirectiveAhead ==
    /\ Running
    /\ Top.pc = "top" /\ Top.tokens # <<>>
    /\ Head(Top.tokens).Op = "preprocess"
    /\ Head(Top.tokens).Value # "import"

\* C7 as claimed: a directive other than import is accepted whatever
\* follows it and changes nothing but its own removal from the stream.
C7_NoEffect ==
    [][DirectiveAhead =>
          /\ status' # "error"
          /\ nodes' = nodes /\ syms' = syms
          /\ TopNext.tokens = Tail(Top.tokens)]_vars

\* C7 amended: a directive other than import must be followed by a string
\* token, as import must: then it is accepted, the string is consumed with
\* it, and the tree and the tables are unchanged; followed by anything
\* else, or by nothing, it is an error (the tree and the tables unchanged).
C7_OtherDirective ==
    [][DirectiveAhead =>
          /\ nodes' = nodes /\ syms' = syms
          /\ IF Len(Top.tokens) >= 2 /\ Top.tokens[2].Op = "string"
             THEN /\ status' = "running"
                  /\ Len(stack') = Len(stack)
                  /\ TopNext.pc = "top"
                  /\ TopNext.tokens = SubSeq(Top.tokens, 3, Len(Top.tokens))
             ELSE status' = "error"]_vars

\* C7 witness: `#pragma "s"` at the head of the main file was handled: the
\* loop is left with what follows the string, the tree is the bare root.
C7_Witness ==
    /\ Running
    /\ Len(stack) = 1 /\ Top.pc = "top"
    /\ Len(files.main) > 2
    /\ files.main[1] = Pre("pragma") /\ files.main[2] = Str("s")
    /\ Top.tokens = SubSeq(files.main, 3, Len(files.main))
    /\ nodes = <<NodeRec("node", Nil)>> /\ syms = <<>>

\* C9: when `class N<X>` or `enum N<X>` is analysed and the root's table
\* holds X for a class or enum declared (or imported) before, the new
\* node's qualifier is that symbol, whose node is the declaration named X.
C9_QualifierResolves ==
    [][(/\ DeclAhead /\ Len(Top.tokens) >= 5
        /\ Top.tokens[3] = openQualifierToken
        /\ Top.tokens[4].Op = "identifier"
        /\ Top.tokens[5] = closeQualifierToken
        /\ Top.tokens[2].Value \notin DOMAIN nodes[Top.root].symbols
        /\ Top.tokens[4].Value \in DOMAIN nodes[Top.root].symbols
        /\ ~Referenced(Top.root, Top.tokens[4].Value)) =>
          LET n == Len(nodes) + 1
              s == nodes[Top.root].symbols[Top.tokens[4].Value]
          IN /\ status' # "panic"
             /\ nodes'[n].Value = Top.tokens[2].Value
             /\ nodes'[n].Qualifier = s
             /\ syms'[s] = syms[s]
             /\ nodes'[syms[s].Node].Value = Top.tokens[4].Value
             /\ nodes'[syms[s].Node].kind \in {"class", "enum"}
             /\ nodes'[syms[s].Node].parent = Top.root]_vars

\* C9 witness: `class A { }; class B<A> { };` was analysed, and B's
\* qualifier is the root's symbol A, whose node is the class node A.
C9_Witness ==
    /\ status = "ok"
    /\ files.main = ClassA \o ClassBofA
    /\ \E a \in Named(1, "A"), b \in Named(1, "B") :
          /\ nodes[b].Qualifier = nodes[1].symbols["A"]
          /\ syms[nodes[1].symbols["A"]].Node = a
          /\ nodes[a].kind = "class"

\* C10: the default list of the property under analysis has one symbol for
\* each identifier of the chain read so far, in the order read, each named
\* by the last component of its identifier; so it has when the property's
\* analysis is complete.  After `enum MyEnum2 Flags { y; };
\* class K { const uint C = 1; y = C | MyEnum2::y; };` the default list of
\* K's y is the symbol C of K's table, then the symbol y of MyEnum2's.
C10_DefaultChain ==
    /\ (stack # <<>> /\ Top.prop # Nil) =>
          /\ Len(nodes[Top.prop].Default) = Len(Top.chain)
          /\ \A k \in 1..Len(Top.chain) :
                syms[nodes[Top.prop].Default[k]].Value
                   = Top.chain[k][Len(Top.chain[k])]
    /\ (status = "ok" /\ files.main = EnumMyEnum2 \o ClassK) =>
          \E e \in Named(1, "MyEnum2"), k \in Named(1, "K") :
             \E y \in Named(k, "y") :
                nodes[y].Default =
                   <<nodes[k].symbols["C"], nodes[e].symbols["y"]>>

\* C10 witness: a property whose chain `C | MyEnum2::y` was read has a
\* default list of two symbols, the second found inside the enum, and its
\* analysis is complete.
C10_Witness ==
    /\ Running
    /\ Top.pc = "scope" /\ Top.prop # Nil
    /\ Top.chain = <<(<<"C">>), <<"MyEnum2", "y">>>>
    /\ Len(nodes[Top.prop].Default) = 2
    /\ syms[nodes[Top.prop].Default[1]].Value = "C"
    /\ nodes[syms[nodes[Top.prop].Default[2]].Scope].Value = "MyEnum2"

(***************************************************************************)
(* Claims about the Tokenizer (LexSpec)                                    *)
(***************************************************************************)

\* The 1-based row and column of the i-th character of data.
RowOf(data, i) == 1 + Cardinality({j \in 1..(i - 1) : data[j] = "\n"})
ColOf(data, i) ==
    LET breaks == {j \in 1..(i - 1) : data[j] = "\n"}
        lineStart == IF breaks = {} THEN 0
                     ELSE CHOOSE j \in breaks : \A k \in breaks : k <= j
    IN i - lineStart

\* C6 as claimed: every token queued carries the 1-based row and the
\* 1-based column of its first character: a token with k characters before
\* it on its line has column k + 1, whatever its length.
C6_StartPosition ==
    \A i \in 1..Len(lex.q) :
       /\ lex.q[i].Row = RowOf(lex.data, lex.q[i].at)
       /\ lex.q[i].Col = ColOf(lex.data, lex.q[i].at)

\* The spans the pattern cuts data into from position i on, in order.
RECURSIVE Spans(_, _)
Spans(data, i) ==
    IF i > Len(data) THEN <<>>
    ELSE <<MatchAt(data, i)>> \o Spans(data, MatchAt(data, i).to)

Insignificant(m) == m.group \in {"whitespace", "comment"}

\* The spans of data that start before pos and are neither whitespace nor
\* comment, in order.
SignificantBefore(data, pos) ==
    SelectSeq(Spans(data, 1), LAMBDA m : m.from < pos /\ ~Insignificant(m))

OnlyInsignificant(data) ==
    \A i \in 1..Len(Spans(data, 1)) : Insignificant(Spans(data, 1)[i])

\* No character of data is one that countRunes rejects.
Countable(data) ==
    \A i \in 1..Len(data) : data[i] \notin {BadByte, Replacement}

\* C14 as claimed, its last part: an input made only of whitespace and
\* comment spans gives no token and no error.
C14_NoError ==
    (status = "lex" /\ OnlyInsignificant(lex.data)) =>
        lex.state # "error" /\ lex.q = <<>>

\* C14, amended: the tokens queued are the spans read so far that are
\* neither whitespace nor comment, one token each, in source order, and
\* tokenize returns without error only when every span was read; an input
\* made only of whitespace and comment spans, the empty input among them,
\* gives no token, and gives no error when no span holds a character that
\* countRunes rejects.
C14_Tokens ==
    status = "lex" =>
       /\ Len(lex.q) = Len(SignificantBefore(lex.data, lex.pos))
       /\ \A i \in 1..Len(lex.q) :
             /\ lex.q[i].at = SignificantBefore(lex.data, lex.pos)[i].from
             /\ lex.q[i].Op = SignificantBefore(lex.data, lex.pos)[i].group
       /\ lex.state = "done" => lex.pos = Len(lex.data) + 1
       /\ OnlyInsignificant(lex.data) => lex.q = <<>>
       /\ (OnlyInsignificant(lex.data) /\ Countable(lex.data)) =>
             lex.state # "error"

\* tokenize has returned nil with no token for a comment that holds a
\* two-byte character.
C14_Witness ==
    /\ status = "lex"
    /\ lex.state = "done"
    /\ lex.q = <<>>
    /\ lex.data = <<"/", "/", EAcute>>

(***************************************************************************)
(* Claims about the shape of the tree (Spec)                               *)
(***************************************************************************)

\* The node k parent pointers above n, or nil when the chain ends before.
RECURSIVE Up(_, _, _)
Up(ns, n, k) == IF n = Nil \/ k = 0 THEN n ELSE Up(ns, ns[n].parent, k - 1)

\* How many times x is in seq.
Occurrences(seq, x) == Cardinality({i \in 1..Len(seq) : seq[i] = x})

\* The roots of the Analyze calls in progress.
FrameRoots == {stack[i].root : i \in 1..Len(stack)}

\* C11: in every state of an analysis the parent pointers make no cycle;
\* every node of a child list has the list's node as its parent; every node
\* with a parent is exactly once in its parent's child list (so in no other
\* list); the only nodes without a parent are the roots Analyze makes, and
\* every declared node hangs under the root of an Analyze in progress: the
\* one root of the main file once its imports are merged.
C11_TreeShape ==
    /\ \A n \in NodeIds : Up(nodes, n, Len(nodes)) = Nil
    /\ \A n \in NodeIds : \A i \in 1..Len(nodes[n].children) :
          nodes[nodes[n].children[i]].parent = n
    /\ \A c \in NodeIds :
          nodes[c].parent # Nil =>
             Occurrences(nodes[nodes[c].parent].children, c) = 1
    /\ \A n \in NodeIds :
          /\ nodes[n].parent = Nil <=> nodes[n].kind = "node"
          /\ nodes[n].kind # "node" => RootOf(nodes, n) \in FrameRoots

\* C11 witness: an analysis with an import is complete: the root of the
\* imported file is left without children, and a property two levels down
\* that was made under it hangs under the main root, beside a class of the
\* main file.
C11_Witness ==
    /\ status = "ok"
    /\ Len(nodes[1].children) >= 2
    /\ \E r \in NodeIds \ {1} :
          /\ nodes[r].kind = "node" /\ nodes[r].children = <<>>
          /\ \E p \in NodeIds :
                /\ p > r /\ nodes[p].kind = "property"
                /\ Chain(nodes, p)[3] = 1


(***************************************************************************)
(* Claims about AdoptChildren (TreeSpec)                                   *)
(***************************************************************************)
\* C12: after self.AdoptChildren(other) with other # self, every former
\* child of other has self as parent and stands in self's child list after
\* self's previous children, in the order it had; other's child list is
\* empty; self's previous children keep their places, and the symbol tables
\* of all nodes (self and other among them) and the symbols are unchanged.
C12_AdoptChildren ==
    [][last'.op = "AdoptChildren" =>
         LET self == last'.n
             other == last'.other
             moved == nodes[other].children
         IN /\ self # other
            /\ nodes'[self].children = nodes[self].children \o moved
            /\ \A i \in 1..Len(moved) : nodes'[moved[i]].parent = self
            /\ nodes'[other].children = <<>>
            /\ DOMAIN nodes' = DOMAIN nodes
            /\ \A n \in NodeIds : nodes'[n].symbols = nodes[n].symbols
            /\ syms' = syms]_vars

\* An adoption of two children by a node that had a child, both tables
\* holding a symbol.
C12_Witness ==
    /\ last.op = "AdoptChildren"
    /\ last.made >= 2
    /\ Len(nodes[last.n].children) > last.made
    /\ nodes[last.other].children = <<>>
    /\ nodes[last.n].symbols # EmptyTable
    /\ nodes[last.other].symbols # EmptyTable


(***************************************************************************)
(* Claims about the TokenQueue and the primitives (QueueSpec)              *)
(***************************************************************************)
\* C13: the queue is first-in first-out.  enqueue puts the token at the
\* back; Dequeue on a non-empty queue returns the front token and lowers Len
\* by one, so that the tokens handed out followed by the tokens held are
\* the tokens enqueued, in their order; on an empty queue Dequeue and Peek
\* return nil and leave it empty; Peek on a non-empty queue returns the
\* front token and changes nothing.
C13_Fifo ==
    [][/\ last'.op = "enqueue" =>
             queue'.list = Append(queue.list, last'.arg)
       /\ last'.op = "Dequeue" =>
             IF queue.list = <<>>
             THEN last'.tok = NoToken /\ queue' = queue
             ELSE /\ last'.tok = queue.list[1]
                  /\ queue'.list = Tail(queue.list)
                  /\ Len(queue'.list) = Len(queue.list) - 1
       /\ last'.op = "Peek" =>
             /\ queue' = queue
             /\ last'.tok = IF queue.list = <<>> THEN NoToken
                            ELSE queue.list[1]
       /\ queue'.out \o queue'.list = queue'.in]_vars

\* Two different tokens dequeued, in the order they went in, with a third
\* still held.
C13_Witness ==
    /\ last.op = "Dequeue"
    /\ Len(queue.out) = 2
    /\ queue.out[1] # queue.out[2]
    /\ last.tok = queue.out[2]
    /\ Len(queue.list) = 1


\* Whether the front of q is what the primitive `name` called with `arg`
\* asks for: the operation code for the Op forms, Token.Equal (the code and
\* the value under case folding) for the Token forms.
Matches(name, arg, q) ==
    /\ q # <<>>
    /\ IF name \in {"expectOp", "optionalOp"}
       THEN q[1].Op = arg.Op
       ELSE q[1].Op = arg.Op /\ Fold(q[1].Value) = Fold(arg.Value)

\* C19: a primitive consumes exactly the front token when it matches and
\* returns it, and consumes nothing otherwise.  On a mismatch or an empty
\* queue the expect forms return an error and leave the queue as it was:
\* the EOF error carries no row and column, the mismatch error carries the
\* row and column of the front token; the optional forms return nil and
\* leave the queue as it was.
C19_Primitives ==
    [][last'.op \in {"expectOp", "expectToken", "optionalOp", "optionalToken"}
         => IF Matches(last'.op, last'.arg, queue.list)
            THEN /\ queue'.list = Tail(queue.list)
                 /\ last'.tok = queue.list[1]
                 /\ last'.err = NoError
            ELSE /\ queue'.list = queue.list
                 /\ last'.tok = NoToken
                 /\ IF last'.op \in {"optionalOp", "optionalToken"}
                    THEN last'.err = NoError
                    ELSE IF queue.list = <<>>
                    THEN last'.err.msg = "EOF" /\ last'.err.pos = <<>>
                    ELSE /\ last'.err.msg = "Unexpected token"
                         /\ last'.err.pos =
                               <<queue.list[1].Row, queue.list[1].Col>>]_vars

\* expectToken rejecting the front token after a token was consumed: the
\* error holds the position of the token still at the front.
C19_Witness ==
    /\ last.op = "expectToken"
    /\ last.tok = NoToken
    /\ queue.out # <<>>
    /\ queue.list # <<>>
    /\ last.err.msg = "Unexpected token"
    /\ last.err.pos = <<queue.list[1].Row, queue.list[1].Col>>
    /\ last.err.file = "f"


(***************************************************************************)
(* Claims about countRunes (CountSpec)                                     *)
(***************************************************************************)
\* The characters data decodes to from pos on, each with its width; an
\* invalid encoding is the only rune of width 1 that is RuneError.
RECURSIVE Runes(_, _)
Runes(data, pos) ==
    IF pos > Len(data) THEN <<>>
    ELSE <<DecodeRune(data, pos)>>
            \o Runes(data, pos + DecodeRune(data, pos).s)

InvalidEncoding(data) ==
    \E i \in 1..Len(Runes(data, 1)) :
        Runes(data, 1)[i].r = RuneError /\ Runes(data, 1)[i].s = 1

LineFeeds(data) == Cardinality({i \in 1..Len(data) : data[i] = 10})

\* The place after the last line feed of data (1 when there is none).
AfterLastLineFeed(data) ==
    IF LineFeeds(data) = 0 THEN 1
    ELSE 1 + CHOOSE i \in 1..Len(data) :
                /\ data[i] = 10
                /\ \A j \in (i + 1)..Len(data) : data[j] # 10

\* C15: countRunes returns the number of line feeds of data and the number
\* of decoded characters after the last of them (of all data when there is
\* none), a multi-byte character counting once and a carriage return as a
\* character; it returns an error and no counts (-1, -1) when data holds an
\* invalid encoding.
C15_CountRunes ==
    (status = "count" /\ lex.state = "returned") =>
        IF InvalidEncoding(lex.data)
        THEN lex.err /\ lex.rows = 0 - 1 /\ lex.cols = 0 - 1
        ELSE /\ ~lex.err
             /\ lex.rows = LineFeeds(lex.data)
             /\ lex.cols = Len(Runes(lex.data, AfterLastLineFeed(lex.data)))


(***************************************************************************)
(* Claims about errors in the Analyzer (FaultSpec)                         *)
(***************************************************************************)
\* C18: the first error a production returns, at any depth, ends the
\* analysis: from then on no token is dequeued in any frame, no node and no
\* symbol is made, no production runs, and the analysis stays failed.
C18_FirstErrorEnds ==
    [][status = "error" =>
          /\ status' = "error"
          /\ stack' = stack
          /\ nodes' = nodes
          /\ syms' = syms]_vars

\* C18 witness: a production of the imported file has returned an error
\* inside a scope block, with tokens left in the imported file and in the
\* importing one, whose Analyze is the enclosing frame.
C18_Witness ==
    /\ status = "error"
    /\ Len(stack) = 2
    /\ Top.pc = "scope"
    /\ Top.tokens # <<>>
    /\ stack[1].tokens # <<>>
    /\ Len(nodes) >= 3

HasInvalid(q) == \E i \in 1..Len(q) : q[i].Op = "invalid"

\* The step is the return of an Analyze with a nil error: the outermost
\* one, or that of an imported file into importFile.
ReturnsSuccess ==
    \/ status = "running" /\ status' = "ok"
    \/ status' = "running" /\ Len(stack') < Len(stack)

\* C20: the Analyze of a file whose token stream holds an invalid token
\* never returns success; no production takes an invalid token off the
\* queue: when the front token is invalid the step fails and the token
\* stays at the front, except at the top level, where Analyze's own Dequeue
\* took it and handleToken fails on it.
C20_InvalidNeverSucceeds ==
    [][/\ ReturnsSuccess => ~HasInvalid(files[Top.filename])
       /\ (status = "running" /\ Top.tokens # <<>>
              /\ Head(Top.tokens).Op = "invalid") =>
             /\ status' = "error"
             /\ Top.pc # "top" => stack' = stack]_vars

\* C20 witness: inside a default chain the front token is invalid, and the
\* analysis has failed there with the token still queued.
C20_Witness ==
    /\ status = "error"
    /\ Top.pc = "default"
    /\ Top.tokens # <<>>
    /\ Head(Top.tokens).Op = "invalid"
    /\ HasInvalid(files.main)


\* An import is under way: the import directive is the token the loop of
\* Analyze is about to take, or the imported file is being analysed.
Importing ==
    \/ Len(stack) > 1
    \/ /\ status = "running" /\ Len(stack) = 1 /\ Top.pc = "top"
       /\ Top.tokens # <<>> /\ Head(Top.tokens) = Pre("import")

\* C21: AdoptChildren and ImportSymbols run only when the Analyze of the
\* imported file returns success.  From the import directive on, every
\* step but that return leaves the importing root's child list and symbol
\* table as they were, the steps that fail (no string after the directive,
\* a file that cannot be opened, that cannot be tokenized, or whose
\* analysis fails) included; and a failure leaves the importing Analyze
\* failed, with the imported frame never returning into it.
C21_ImportFailure ==
    [][(Importing /\ ~(Len(stack') < Len(stack))) =>
          /\ nodes'[stack[1].root].children = nodes[stack[1].root].children
          /\ nodes'[stack[1].root].symbols = nodes[stack[1].root].symbols
          /\ status' \in {"running", "error"}
          /\ status = "error" => (status' = "error" /\ stack' = stack)]_vars

\* C21 witness: the analysis of the imported file has failed after it made
\* a node of its own; the importing root holds the declaration made before
\* the directive and nothing else.
C21_Witness ==
    /\ status = "error"
    /\ Len(stack) = 2
    /\ Len(nodes[Top.root].children) = 1
    /\ Len(nodes[stack[1].root].children) = 1
    /\ DOMAIN nodes[stack[1].root].symbols = {"E"}
    /\ "A" \in DOMAIN nodes[Top.root].symbols


(***************************************************************************)
(* Claims about property declarations (FaultSpec)                          *)
(***************************************************************************)
\* The identifiers of a token sequence that stand outside a qualifier
\* '<' ... '>', in order.
RECURSIVE IdentifiersOutside(_, _)
IdentifiersOutside(ts, inside) ==
    IF ts = <<>> THEN <<>>
    ELSE IF Head(ts) = Oper("<") THEN IdentifiersOutside(Tail(ts), TRUE)
    ELSE IF Head(ts) = Oper(">") THEN IdentifiersOutside(Tail(ts), FALSE)
    ELSE IF Head(ts).Op = "identifier" /\ ~inside
    THEN <<Head(ts).Value>> \o IdentifiersOutside(Tail(ts), inside)
    ELSE IdentifiersOutside(Tail(ts), inside)

\* The tokens the step took off the queue of the frame on top.
Consumed ==
    SubSeq(Top.tokens, 1, Len(Top.tokens) - Len(TopNext.tokens))

\* The step is analyzeProperty reading a declaration up to its '=' (which
\* it takes) or its ';' (which it leaves), and going on.
PropertyDeclared ==
    /\ status = "running" /\ status' = "running"
    /\ Top.pc = "scope" /\ TopNext.pc \in {"default", "propend"}
    /\ Len(stack') = Len(stack)
    /\ \/ TopNext.pc = "default"
       \/ TopNext.tokens # <<>> /\ Head(TopNext.tokens) = Term

\* C22: the identifiers of a property declaration before its '=' or ';'
\* (the qualifier's apart) decide their roles by their number: of three,
\* the first is the flags word, the second the type and the third the
\* name; of two, the first is the type and the second the name; one is the
\* name, and the property has no type symbol and no flags word.  The
\* enclosing class or enum's table gains the name, and nothing else: its
\* symbol is new, names the property node and has the enclosing node as
\* scope.
C22_PropertyRoles ==
    [][PropertyDeclared =>
          LET ids == IdentifiersOutside(Consumed, FALSE)
              k == Len(ids)
              n == Len(nodes) + 1
              scope == Top.scope
              s == nodes'[scope].symbols[ids[k]]
          IN /\ k \in 1..3
             /\ Len(nodes') = n
             /\ nodes'[n].kind = "property" /\ nodes'[n].parent = scope
             /\ nodes'[n].Value = ids[k]
             /\ nodes'[n].Flags = IF k = 3 THEN ids[1] ELSE ""
             /\ IF k = 1 THEN nodes'[n].Type = Nil
                ELSE /\ nodes'[n].Type # Nil
                     /\ syms'[nodes'[n].Type].Value = ids[k - 1]
             /\ DOMAIN nodes'[scope].symbols =
                   DOMAIN nodes[scope].symbols \cup {ids[k]}
             /\ ids[k] \notin DOMAIN nodes[scope].symbols
             /\ \A v \in DOMAIN nodes[scope].symbols :
                   nodes'[scope].symbols[v] = nodes[scope].symbols[v]
             /\ s > Len(syms)
             /\ syms'[s].Node = n /\ syms'[s].Scope = scope]_vars

\* C22 witness: a property of three identifiers and a qualifier has been
\* declared in a class: flags word, type and name are the first, second
\* and third, and the class's table holds the name and neither of the
\* others.
C22_Witness ==
    \E n \in NodeIds :
       /\ nodes[n].kind = "property"
       /\ nodes[n].Value = "z" /\ nodes[n].Flags = "k"
       /\ nodes[n].Type # Nil /\ syms[nodes[n].Type].Value = "uint"
       /\ nodes[n].FlagsOpt # Nil
       /\ nodes[nodes[n].parent].kind = "class"
       /\ "z" \in DOMAIN nodes[nodes[n].parent].symbols
       /\ "k" \notin DOMAIN nodes[nodes[n].parent].symbols
       /\ "uint" \notin DOMAIN nodes[nodes[n].parent].symbols

(***************************************************************************)
(* Claims about the end of Analyze (LiveSpec)                              *)
(***************************************************************************)
\* The outermost Analyze has returned, or a panic has ended the run.
Terminal == status # "running"

\* The next step of the innermost Analyze is importFile on a file whose
\* Analyze is in progress, and the file can be opened and tokenized.
CycleAhead ==
    /\ Running
    /\ Top.pc = "top" /\ Len(Top.tokens) >= 2
    /\ Top.tokens[1] = Pre("import") /\ Top.tokens[2].Op = "string"
    /\ LET input == ImportPath(Top.filename, Top.tokens[2].Value)
       IN /\ input \in DOMAIN files
          /\ files[input] # LexFailure
          /\ \E i \in 1..Len(stack) : stack[i].filename = input

\* A step of one Analyze that neither calls nor returns from another.
LoopStep ==
    /\ status = "running" /\ status' = "running"
    /\ Len(stack') = Len(stack)

\* C23: Analyze ends exactly when the imports it follows do not come back
\* to a file under analysis.  Every step of the top-level loop, the scope
\* loop and the default chain takes at least one token off the queue or
\* fails; a file without import directives is analysed to an end; every
\* analysis ends or comes to import a file under analysis; and once it
\* does, it never ends and nests Analyze calls as deep as calls can nest.
C23_Termination ==
    /\ [][LoopStep => Len(TopNext.tokens) < Len(Top.tokens)]_vars
    /\ (~HasImport(files.main) => <>Terminal)
    /\ <>(Terminal \/ CycleAhead)
    /\ [](CycleAhead => [](~Terminal))
    /\ (CycleAhead ~> (Len(stack) = MaxDepth /\ CycleAhead))

\* C23 witness: the main file imports f after a declaration and f imports
\* the main file back; the main file is under analysis a second time, in
\* the Analyze nested in that of f, and has come to import f again.
C23_Witness ==
    /\ CycleAhead
    /\ Len(stack) = 3
    /\ stack[1].filename = "main" /\ stack[2].filename = "f"
    /\ Top.filename = "main"
    /\ Len(nodes[Top.root].children) = 1
    /\ Len(nodes[stack[1].root].children) = 1

(***************************************************************************)
(* Claims about the tree a successful Analyze returns (Spec)               *)
(***************************************************************************)
\* The class, enum and property nodes.
Declarations == {c \in NodeIds : nodes[c].kind \in {"class", "enum", "property"}}

\* The table of c's parent holds a symbol named as c, with that parent as
\* its scope.
Listed(c) ==
    /\ nodes[c].parent # Nil
    /\ nodes[c].Value \in DOMAIN nodes[nodes[c].parent].symbols
    /\ syms[nodes[nodes[c].parent].symbols[nodes[c].Value]].Scope
          = nodes[c].parent

\* The node of the symbol the table of c's parent holds under c's name.
Designee(c) == syms[nodes[nodes[c].parent].symbols[nodes[c].Value]].Node

Designated(c) == Listed(c) /\ Designee(c) = c

\* c's place among the children of its parent.
Place(c) ==
    CHOOSE i \in 1..Len(nodes[nodes[c].parent].children) :
        nodes[nodes[c].parent].children[i] = c

\* c's name was taken in the table of its parent before c was merged into
\* it: by a reference that created the symbol (no node), or by a
\* declaration that stands before c among the children.
Collided(c) ==
    /\ nodes[nodes[c].parent].kind = "node"
    /\ \/ Designee(c) = Nil
       \/ /\ Designee(c) \in Declarations
          /\ nodes[Designee(c)].parent = nodes[c].parent
          /\ Place(Designee(c)) < Place(c)
          /\ Designated(Designee(c))

\* C24 as stated: after a successful Analyze every class, enum and
\* property node is the node of the symbol its parent's table holds under
\* its name.
C24_AllDesignated ==
    status = "ok" => \A c \in Declarations : Designated(c)

\* C24: after a successful Analyze, merged imports included, the table of
\* the parent of every class, enum and property node c holds a symbol named
\* as c whose scope is that parent; its node is c, unless c is a class or
\* enum merged from an imported file under a name the importing root's
\* table held already, which keeps its first symbol.  Every property, and
\* every declaration of a file that imports nothing, is designated.
C24_Designation ==
    status = "ok" =>
        /\ \A c \in Declarations :
               /\ Listed(c)
               /\ Designated(c) \/ Collided(c)
               /\ nodes[c].kind = "property" => Designated(c)
        /\ ~HasImport(files.main) => \A c \in Declarations : Designated(c)

\* C24 witness: the main file imports f, which declares class A, and then
\* declares class B with a property of type A; the analysis has succeeded,
\* A is merged into the root and designated by it, and so are B in the
\* root and the property in B.
C24_Witness ==
    /\ status = "ok"
    /\ files.main = ImportF \o Class("B", <<>>, <<Id("A"), Id("x"), Term>>)
    /\ files.f = ClassA
    /\ \E a, b, x \in Declarations :
          /\ nodes[a].Value = "A" /\ nodes[b].Value = "B"
          /\ nodes[x].Value = "x"
          /\ nodes[a].parent = stack[1].root
          /\ nodes[b].parent = stack[1].root
          /\ nodes[x].parent = b
          /\ Designated(a) /\ Designated(b) /\ Designated(x)
          /\ nodes[x].Type # Nil /\ syms[nodes[x].Type].Node = a

====
